---- MODULE Spec2Model ----
(***************************************************************************)
(* A model of the Dempster-Shafer crate `dst` of jonesz/fuze: the Set      *)
(* implementation for usize bitsets, the query layer (bel, pl), Dempster's *)
(* rule (comb_dempster_q, Dempster::comb) and the bounded top-K containers *)
(* (heap::PriorityHeap, bpq::BoundedPriorityQueue).                        *)
(*                                                                         *)
(* Masses are f32 in the source.  The query layer (bel, pl), the           *)
(* combination rules (comb_dempster_q, Dempster::comb, NoAllocHashMap) and *)
(* the approximations (KX, Summarize) compute with f32 bit patterns and    *)
(* IEEE-754 rounding.                                                      *)
(***************************************************************************)
EXTENDS Integers, Sequences, FiniteSets, TLC

VARIABLES
    \* query layer: the assignment, the query set and the two results
    bba, q, belOut, plOut, qpc,
    \* comb_dempster_q: the input assignments, the query set and the result
    bbas, cq, combOut, cpc,
    \* Dempster::comb: the input assignments and the outcome of the call
    dIn, dOut, dpc,
    \* heap::PriorityHeap<N, T>: N, buf, the elements inserted so far, the
    \* buffer before the last call, the last return value, the script left,
    \* the elements returned as Some(..) so far
    hcap, hbuf, hhist, hprev, hret, hmode, hfeed, hevict,
    \* bpq::BoundedPriorityQueue<T, N>: N, buf, initialized, the elements
    \* inserted so far, the buffer before the last call, the script left
    bcap, bbuf, binitialized, bhist, bprev, bmode, bfeed,
    \* the approximations: the input assignment, the capacity N, the scheme
    \* applied, its outcome and how often it was applied to its own output
    aIn, aN, aScheme, aOut, aRounds, apc,
    \* SummationEM<N, K, V> / CGHashMap<N, K, V>: which of the two, N, buf
    \* (its N rows one after the other), the pairs inserted so far and what
    \* consume yielded, and the number of scale calls so far
    emKind, emN, emBuf, emHist, emOut, empc, emScales,
    \* the Set implementations: which one, the two operands and the result
    \* of is_subset
    sKind, sLhs, sRhs, sOut, spc,
    \* CartesianProduct<D, I>: the iterator, the indices and tuples its
    \* next() returned so far, the outcome of the last call and the number
    \* of calls that returned None
    prod, pHist, pLast, pNone,
    \* hashmap::NoAllocHashMap<N, usize, V>: buf, the (key, value) pairs
    \* inserted so far, the outcome of the last call and the number of scale
    \* calls so far
    mbuf, mhist, mlast, mscales,
    \* pq::BoundedPriorityQueue<T, N> (sorted array): buf, num_initialized,
    \* the elements inserted so far and the outcome of the last call
    obuf, onum, ohist, olast,
    \* weighted_average_convex::<i32, i32, N>: the predictions, the weights
    \* and the outcome of the call
    wPred, wWeights, wOut, wpc

qvars == <<bba, q, belOut, plOut, qpc>>
cvars == <<bbas, cq, combOut, cpc>>
dvars == <<dIn, dOut, dpc>>
hvars == <<hcap, hbuf, hhist, hprev, hret, hmode, hfeed, hevict>>
bvars == <<bcap, bbuf, binitialized, bhist, bprev, bmode, bfeed>>
avars == <<aIn, aN, aScheme, aOut, aRounds, apc>>
evars == <<emKind, emN, emBuf, emHist, emOut, empc, emScales>>
svars == <<sKind, sLhs, sRhs, sOut, spc>>
pvars == <<prod, pHist, pLast, pNone>>
mvars == <<mbuf, mhist, mlast, mscales>>
ovars == <<obuf, onum, ohist, olast>>
wvars == <<wPred, wWeights, wOut, wpc>>
vars == <<qvars, cvars, dvars, hvars, bvars, avars, evars, svars, pvars, mvars, ovars, wvars>>

\* Option<T>: None is the empty tuple, Some(x) the one-element tuple <<x>>.
None == <<>>
Some(x) == <<x>>

\* The variables of a component that a specification does not exercise.
QIdle == bba = <<>> /\ q = 0 /\ belOut = 0 /\ plOut = 0 /\ qpc = "idle"
CIdle == bbas = <<>> /\ cq = 0 /\ combOut = [kind |-> "none"] /\ cpc = "idle"
DIdle == dIn = <<>> /\ dOut = [kind |-> "none"] /\ dpc = "idle"
HIdle ==
    /\ hcap = 0 /\ hbuf = <<>> /\ hhist = <<>> /\ hprev = <<>>
    /\ hret = None /\ hmode = "idle" /\ hfeed = <<>> /\ hevict = <<>>
BIdle ==
    /\ bcap = 0 /\ bbuf = <<>> /\ binitialized = 0 /\ bhist = <<>>
    /\ bprev = <<>> /\ bmode = "idle" /\ bfeed = <<>>
AIdle ==
    /\ aIn = <<>> /\ aN = 0 /\ aScheme = "none" /\ aOut = <<>>
    /\ aRounds = 0 /\ apc = "idle"
WIdle == wPred = <<>> /\ wWeights = <<>> /\ wOut = [kind |-> "none"] /\ wpc = "idle"
OIdle == obuf = <<>> /\ onum = 0 /\ ohist = <<>> /\ olast = "idle"
MIdle == mbuf = <<>> /\ mhist = <<>> /\ mlast = [op |-> "idle"] /\ mscales = 0
PIdle == prod = <<>> /\ pHist = <<>> /\ pLast = "idle" /\ pNone = 0
SIdle ==
    /\ sKind = "none" /\ sLhs = 0 /\ sRhs = 0 /\ sOut = FALSE /\ spc = "idle"
EIdle ==
    /\ emKind = "none" /\ emN = 0 /\ emBuf = <<>> /\ emHist = <<>>
    /\ emOut = <<>> /\ empc = "idle"
    /\ emScales = 0

(***************************************************************************)
(* Bounds of the model.                                                    *)
(***************************************************************************)
\* The modelled width of a usize bitset (64 in the build); hypotheses only
\* use the low bits, `not` flips all UsizeBits bits.
UsizeBits == 3
\* The longest assignment the query layer is fed by QPush.
MaxLen == 2
\* The longest assignment comb_dempster_q is fed.
CombLen == 2
\* The capacities N of the top-K containers are 1..MaxCap, the keys fed to
\* them 0..MaxKey, and at most MaxIns insertions are made.
MaxCap == 4
MaxKey == 2
MaxIns == 6
\* Dempster::comb is instantiated with N in 1..MaxN.
MaxN == 2
\* The approximations get inputs of up to MaxApproxLen elements and
\* capacities N in 1..MaxApproxN.
MaxApproxLen == 4
MaxApproxN == 3
\* A summation map has N in 1..MaxEmN, keys 0..MaxEmKey, values in EmValues
\* and takes up to MaxEmIns inserts.
MaxEmN == 2
\* The [u8; N] and Interval<N, T> sets have N in 0..MaxSetN; the bounds of
\* an interval are in 0..MaxCoord.
MaxSetN == 2
\* A CartesianProduct is built over D in 0..MaxD slices of 0..MaxSliceLen
\* elements and is called up to MaxNone times after it returned None.
MaxD == 3
MaxSliceLen == 2
MaxNone == 2
\* NoAllocHashMap: N is at most MaxHmN, keys are 0..MaxHmKey and at most
\* MaxHmIns pairs are inserted; scale is called at most MaxHmScales times.
MaxHmN == 2
MaxHmKey == 2
MaxHmIns == 3
MaxHmScales == 1
\* pq::BoundedPriorityQueue: N is at most MaxPqN and at most MaxPqIns
\* elements are inserted, with keys in Keys.
MaxPqN == 3
MaxPqIns == 5
\* weighted_average_convex: N is at most MaxWaN, predictions and weights are
\* 0..MaxWaVal.
MaxWaN == 2
MaxWaVal == 2
MaxCoord == 1
MaxEmKey == 1
EmValues == {1, 2}
MaxEmIns == 3
\* scale is called at most MaxEmScales times, with a factor in EmFactors.
MaxEmScales == 1
EmFactors == {0, 2, 3}

(***************************************************************************)
(* impl Set for usize (src/dst/src/set.rs) and impl SetOperations for      *)
(* usize (src/src/set.rs).                                                 *)
(***************************************************************************)
RECURSIVE BitAnd(_, _)
BitAnd(a, b) ==
    IF a = 0 \/ b = 0 THEN 0
    ELSE (a % 2) * (b % 2) + 2 * BitAnd(a \div 2, b \div 2)

RECURSIVE BitOr(_, _)
BitOr(a, b) ==
    IF a = 0 THEN b
    ELSE IF b = 0 THEN a
    ELSE (IF (a % 2) + (b % 2) > 0 THEN 1 ELSE 0) + 2 * BitOr(a \div 2, b \div 2)

UsizeMax == 2 ^ UsizeBits - 1

EMPTY == 0

usize_is_subset_swapped(self, rhs) == BitAnd(self, rhs) = rhs
usize_is_subset(self, rhs) == BitAnd(self, rhs) = self

usize_cap(lhs, rhs) == BitAnd(lhs, rhs)

usize_cup(lhs, rhs) == BitOr(lhs, rhs)

usize_not_identity(self) == self
usize_not(self) == UsizeMax - self

usize_is_empty_never(self) == FALSE
usize_is_empty(self) == self = 0

usize_intersection(self, rhs) == BitAnd(self, rhs)

(***************************************************************************)
(* f32 arithmetic of the queries, the combination rules and the           *)
(* approximations.  A                                                      *)
(* non-negative f32 is kept as the integer of its IEEE-754 bit pattern     *)
(* (sign 0, 8 exponent bits, 23 fraction bits), so that the order of the   *)
(* integers is the order of the floats; +inf is 0x7F800000.  Sums,         *)
(* differences, products and quotients are rounded to nearest, ties to     *)
(* even, as the hardware does.                                             *)
(***************************************************************************)
\* Any NaN (0.0 / 0.0); sign and payload are not kept.
F32_NAN == -1
\* +inf: 0x7F800000
F32_INF == 255 * 2 ^ 23
\* 1.0f32: 0x3F800000
F32_ONE == 127 * 2 ^ 23
F32_ZERO == 0

\* The biased exponent (1 for subnormals) and the 24-bit significand, so
\* that the value is F32Sig(b) * 2^(F32Exp(b) - 150).
F32Exp(b) == IF b \div 2 ^ 23 = 0 THEN 1 ELSE b \div 2 ^ 23
F32Sig(b) == IF b \div 2 ^ 23 = 0 THEN b % 2 ^ 23 ELSE 2 ^ 23 + (b % 2 ^ 23)

\* x shifted right by d bits, the bits shifted out ORed into the lowest bit.
ShiftRightSticky(x, d) ==
    IF d >= 30 THEN (IF x > 0 THEN 1 ELSE 0)
    ELSE LET qt == x \div 2 ^ d
             rem == x % 2 ^ d
         IN  IF rem # 0 /\ qt % 2 = 0 THEN qt + 1 ELSE qt

\* Round and pack a significand with three extra low bits (guard, round,
\* sticky): the value is (x3 / 8) * 2^(ex - 150).
RECURSIVE F32RoundPack(_, _)
F32RoundPack(x3, ex) ==
    IF x3 >= 2 ^ 27 \/ (ex < 1 /\ x3 > 0)
    THEN F32RoundPack(ShiftRightSticky(x3, 1), ex + 1)
    ELSE IF x3 < 2 ^ 26 /\ ex > 1 /\ x3 > 0
    THEN F32RoundPack(x3 * 2, ex - 1)
    ELSE LET sig == x3 \div 8
             low == x3 % 8
             up == low > 4 \/ (low = 4 /\ sig % 2 = 1)
             rsig == IF up THEN sig + 1 ELSE sig
             fsig == IF rsig = 2 ^ 24 THEN 2 ^ 23 ELSE rsig
             fex == IF rsig = 2 ^ 24 THEN ex + 1 ELSE ex
         IN  IF x3 = 0 THEN F32_ZERO
             ELSE IF fsig < 2 ^ 23 THEN fsig
             ELSE IF fex >= 255 THEN F32_INF
             ELSE fex * 2 ^ 23 + (fsig - 2 ^ 23)

\* a + b of two non-negative f32 values.
f32_add(a, b) ==
    IF a = F32_NAN \/ b = F32_NAN THEN F32_NAN
    ELSE IF a = F32_INF \/ b = F32_INF THEN F32_INF
    ELSE LET hi == IF a >= b THEN a ELSE b
             lo == IF a >= b THEN b ELSE a
             d == F32Exp(hi) - F32Exp(lo)
         IN  F32RoundPack(F32Sig(hi) * 8 + ShiftRightSticky(F32Sig(lo) * 8, d), F32Exp(hi))

\* The significand shifted left until its top bit is bit 23, with the
\* exponent lowered by as much (identity on normal numbers).
RECURSIVE F32NormSig(_, _)
F32NormSig(sig, ex) ==
    IF sig >= 2 ^ 23 THEN [sig |-> sig, ex |-> ex] ELSE F32NormSig(sig * 2, ex - 1)

\* n more quotient bits of r / d by long division, r < d; the remainder is
\* ORed into the lowest bit.
RECURSIVE LongDiv(_, _, _, _)
LongDiv(r, d, n, acc) ==
    IF n = 0 THEN (IF r # 0 /\ acc % 2 = 0 THEN acc + 1 ELSE acc)
    ELSE IF 2 * r >= d THEN LongDiv(2 * r - d, d, n - 1, 2 * acc + 1)
    ELSE LongDiv(2 * r, d, n - 1, 2 * acc)

\* a / b of two non-negative f32 values.
f32_div(a, b) ==
    IF a = F32_NAN \/ b = F32_NAN THEN F32_NAN
    ELSE IF b = F32_ZERO THEN (IF a = F32_ZERO THEN F32_NAN ELSE F32_INF)
    ELSE IF a = F32_INF THEN (IF b = F32_INF THEN F32_NAN ELSE F32_INF)
    ELSE IF b = F32_INF \/ a = F32_ZERO THEN F32_ZERO
    ELSE LET na == F32NormSig(F32Sig(a), F32Exp(a))
             nb == F32NormSig(F32Sig(b), F32Exp(b))
             \* 27 or 28 quotient bits, the first of them 1
             ge == na.sig >= nb.sig
             r0 == IF ge THEN na.sig - nb.sig ELSE na.sig
             k == IF ge THEN 26 ELSE 27
             qt == LongDiv(r0, nb.sig, k, IF ge THEN 1 ELSE 0)
         IN  F32RoundPack(qt, na.ex - nb.ex - k + 153)

\* a * b of two non-negative f32 values.  The 48-bit product of the
\* significands is built from 12-bit halves and cut to 29 bits, the bits cut
\* off ORed into the lowest one.
f32_mul(a, b) ==
    IF a = F32_NAN \/ b = F32_NAN THEN F32_NAN
    ELSE IF a = F32_INF \/ b = F32_INF
    THEN (IF a = F32_ZERO \/ b = F32_ZERO THEN F32_NAN ELSE F32_INF)
    ELSE IF a = F32_ZERO \/ b = F32_ZERO THEN F32_ZERO
    ELSE LET na == F32NormSig(F32Sig(a), F32Exp(a))
             nb == F32NormSig(F32Sig(b), F32Exp(b))
             ah == na.sig \div 2 ^ 12
             al == na.sig % 2 ^ 12
             bh == nb.sig \div 2 ^ 12
             bl == nb.sig % 2 ^ 12
             mid == ah * bl + al * bh
             lowpart == (mid % 2 ^ 12) * 2 ^ 12 + al * bl
             top == ah * bh + mid \div 2 ^ 12 + lowpart \div 2 ^ 24
             r == lowpart % 2 ^ 24
             y == top * 2 ^ 5 + r \div 2 ^ 19
             ys == IF r % 2 ^ 19 # 0 /\ y % 2 = 0 THEN y + 1 ELSE y
         IN  F32RoundPack(ys, na.ex + nb.ex - 128)

\* A negative f32 of magnitude m (a non-negative bit pattern) is kept as
\* -2 - m, so that -0.0 is -2; NaN stays -1.
F32Neg(m) == -2 - m
F32IsNeg(x) == x <= -2
F32Abs(x) == IF x <= -2 THEN -2 - x ELSE x
F32WithSign(neg, m) == IF m = F32_NAN THEN F32_NAN ELSE IF neg THEN F32Neg(m) ELSE m

\* a - b of two non-negative f32 values; the result may be negative.
f32_sub(a, b) ==
    IF a = F32_NAN \/ b = F32_NAN THEN F32_NAN
    ELSE IF a = F32_INF THEN (IF b = F32_INF THEN F32_NAN ELSE F32_INF)
    ELSE IF b = F32_INF THEN F32Neg(F32_INF)
    ELSE IF a = b THEN F32_ZERO
    ELSE LET hi == IF a >= b THEN a ELSE b
             lo == IF a >= b THEN b ELSE a
             d == F32Exp(hi) - F32Exp(lo)
             m == F32RoundPack(F32Sig(hi) * 8 - ShiftRightSticky(F32Sig(lo) * 8, d),
                               F32Exp(hi))
         IN  F32WithSign(a < b, m)

\* a / b and a * b of two f32 values of either sign.
f32_div_signed(a, b) ==
    IF a = F32_NAN \/ b = F32_NAN THEN F32_NAN
    ELSE F32WithSign(F32IsNeg(a) # F32IsNeg(b), f32_div(F32Abs(a), F32Abs(b)))
f32_mul_signed(a, b) ==
    IF a = F32_NAN \/ b = F32_NAN THEN F32_NAN
    ELSE F32WithSign(F32IsNeg(a) # F32IsNeg(b), f32_mul(F32Abs(a), F32Abs(b)))

\* The f32 of a natural number below 2^28, and the f32 nearest to h / 100:
\* what the literals 0.99f32 and 0.01f32 of the tests denote.
F32OfNat(n) == F32RoundPack(n * 8, 150)
F32Hundredths(h) == f32_div(F32OfNat(h), F32OfNat(100))

\* a + b and a - b of two f32 values of either sign; x + (-x) is +0.0 and
\* (-0.0) + (-0.0) is -0.0.
F32Negate(x) == IF x = F32_NAN THEN F32_NAN ELSE IF x <= -2 THEN -2 - x ELSE F32Neg(x)
f32_add_signed(a, b) ==
    IF a = F32_NAN \/ b = F32_NAN THEN F32_NAN
    ELSE IF F32IsNeg(a) /\ F32IsNeg(b) THEN F32WithSign(TRUE, f32_add(F32Abs(a), F32Abs(b)))
    ELSE IF F32IsNeg(a) THEN f32_sub(b, F32Abs(a))
    ELSE IF F32IsNeg(b) THEN f32_sub(a, F32Abs(b))
    ELSE f32_add(a, b)
f32_sub_signed(a, b) == f32_add_signed(a, F32Negate(b))

\* Iterator::sum::<f32>() over the masses of a sequence of elements: a fold
\* of + from -0.0, so that the sum of no element is -0.0.
RECURSIVE f32_sum_from(_, _, _)
f32_sum_from(elems, i, acc) ==
    IF i > Len(elems) THEN acc
    ELSE f32_sum_from(elems, i + 1, f32_add_signed(acc, elems[i][2]))
f32_sum(elems) == f32_sum_from(elems, 1, F32Neg(F32_ZERO))

\* x == 0.0 as f32 compares: true of +0.0 and of -0.0.
F32IsZero(x) == x = F32_ZERO \/ x = F32Neg(F32_ZERO)
\* a <= b as f32 compares (false with a NaN; -0.0 equals +0.0).
F32Key(x) == IF F32IsNeg(x) THEN 0 - F32Abs(x) ELSE x
F32Le(a, b) == a # F32_NAN /\ b # F32_NAN /\ F32Key(a) <= F32Key(b)

\* The real value of a non-negative f32 below 4.0 that is a multiple of
\* 2^-29, as the integer number of those units.
F32InUnits(b) ==
    \/ b = F32_ZERO
    \/ /\ b > F32_ZERO
       /\ F32Exp(b) >= 98
       /\ F32Exp(b) <= 128
       /\ F32Exp(b) < 121 => F32Sig(b) % 2 ^ (121 - F32Exp(b)) = 0
F32Units(b) ==
    IF b = F32_ZERO THEN 0
    ELSE IF F32Exp(b) >= 121 THEN F32Sig(b) * 2 ^ (F32Exp(b) - 121)
    ELSE F32Sig(b) \div 2 ^ (121 - F32Exp(b))

\* The sum of the masses of a sequence of elements as real numbers, with no
\* rounding, in units of 2^-29.
RECURSIVE RealSum(_)
RealSum(elems) ==
    IF elems = <<>> THEN 0 ELSE F32Units(Head(elems)[2]) + RealSum(Tail(elems))
AllInUnits(elems) == \A i \in DOMAIN elems : F32InUnits(elems[i][2])
\* 1.0 in those units.
UNIT_ONE == F32Units(F32_ONE)

(***************************************************************************)
(* The traffic-light assignment of the tests (src/dst/src/dst.rs).         *)
(***************************************************************************)
RED == 4
YELLOW == 2
GREEN == 1

\* The masses are the f32 values of the decimal literals of the test.
TRAFFIC_BBA ==
    << <<RED, F32Hundredths(35)>>, <<YELLOW, F32Hundredths(25)>>,
       <<GREEN, F32Hundredths(15)>>,
       <<BitOr(RED, YELLOW), F32Hundredths(6)>>, <<BitOr(RED, GREEN), F32Hundredths(5)>>,
       <<BitOr(YELLOW, GREEN), F32Hundredths(4)>>,
       <<BitOr(RED, BitOr(YELLOW, GREEN)), F32Hundredths(10)>> >>

\* An assignment whose f32 sums round: 0.5 on RED, 5 * 2^-27 on YELLOW,
\* 13 * 2^-27 on RED|YELLOW and 0.5 - 5 * 2^-25 on GREEN.  The masses add up
\* to 1 - 2^-26; no hypothesis is EMPTY.
ROUNDING_BBA ==
    << <<RED, 126 * 2 ^ 23>>, <<YELLOW, 102 * 2 ^ 23 + 2 ^ 21>>,
       <<BitOr(RED, YELLOW), 103 * 2 ^ 23 + 5 * 2 ^ 20>>, <<GREEN, 126 * 2 ^ 23 - 5>> >>

(***************************************************************************)
(* Query layer (src/dst/src/dst.rs, src/src/dst.rs), with T = f32.         *)
(***************************************************************************)
\* bba.into_iter().filter_map(|(p, m)| if p.is_subset(q) {Some(m)} else {None}).sum()
bel(m, qq) == f32_sum(SelectSeq(m, LAMBDA e : usize_is_subset(e[1], qq)))

\* T::from(1u8) - bel(bba, &q.not())
pl(m, qq) == f32_sub_signed(F32_ONE, bel(m, usize_not(qq)))

\* Hypotheses over the traffic-light frame, and the masses QPush draws from:
\* 0.0, 0.4 and 0.6.
Frame == BitOr(RED, BitOr(YELLOW, GREEN))
Hyps == 0..Frame
QMasses == {F32_ZERO, F32Hundredths(40), F32Hundredths(60)}

QInit ==
    /\ bba \in {<<>>, TRAFFIC_BBA, ROUNDING_BBA}
    /\ q = EMPTY
    /\ belOut = F32_ZERO
    /\ plOut = F32_ZERO
    /\ qpc = "build"
    /\ CIdle /\ DIdle /\ HIdle /\ BIdle /\ AIdle /\ EIdle /\ SIdle /\ PIdle /\ MIdle /\ OIdle /\ WIdle

\* The caller appends one (hypothesis, mass) pair to the assignment.
QPush(h, m) ==
    /\ qpc = "build"
    /\ Len(bba) < MaxLen
    /\ bba' = Append(bba, <<h, m>>)
    /\ UNCHANGED <<q, belOut, plOut, qpc>>
    /\ UNCHANGED <<cvars, dvars, hvars, bvars, avars, evars, svars, pvars, mvars, ovars, wvars>>

\* The caller asks bel and pl of the same query set.
QueryBelPl(qq) ==
    /\ qpc = "build"
    /\ q' = qq
    /\ belOut' = bel(bba, qq)
    /\ plOut' = pl(bba, qq)
    /\ qpc' = "done"
    /\ UNCHANGED bba
    /\ UNCHANGED <<cvars, dvars, hvars, bvars, avars, evars, svars, pvars, mvars, ovars, wvars>>

QNext ==
    \/ \E h \in Hyps, m \in QMasses : QPush(h, m)
    \/ \E qq \in Hyps : QueryBelPl(qq)

SpecQuery == QInit /\ [][QNext]_vars

(***************************************************************************)
(* Set-theoretic reading of a bitset, used to state the claims.            *)
(***************************************************************************)
AllBits == 0..(UsizeBits - 1)
Elems(x) == {i \in AllBits : (x \div (2 ^ i)) % 2 = 1}

\* The f32 sum of the masses at the positions S of m, by position, from
\* -0.0 as Iterator::sum does.
RECURSIVE SumIdx(_, _)
SumIdx(S, m) ==
    IF S = {} THEN F32Neg(F32_ZERO)
    ELSE LET i == CHOOSE j \in S : \A l \in S : l <= j
         IN  f32_add_signed(SumIdx(S \ {i}, m), m[i][2])

TotalMass(m) == SumIdx(DOMAIN m, m)
NonNegative(m) == \A i \in DOMAIN m : F32Le(F32_ZERO, m[i][2])
EmptyHasNoMass(m) == \A i \in DOMAIN m : m[i][1] = EMPTY => m[i][2] = F32_ZERO

\* C1: bel(m, q) is exactly the sum of the masses of the elements of m whose
\* hypothesis is a subset of q (0 when there is none); on the traffic-light
\* assignment bel(RED) = 0.35 and bel(RED|YELLOW) = 0.66.
C1_BelSumsSubsets ==
    qpc = "done" =>
        LET sub == {i \in DOMAIN bba : Elems(bba[i][1]) \subseteq Elems(q)}
        IN  /\ belOut = SumIdx(sub, bba)
            /\ sub = {} => F32IsZero(belOut)
            /\ (bba = TRAFFIC_BBA /\ q = RED) => belOut = F32Hundredths(35)
            /\ (bba = TRAFFIC_BBA /\ q = BitOr(RED, YELLOW)) => belOut = F32Hundredths(66)

C1_Witness ==
    /\ qpc = "done"
    /\ bba = TRAFFIC_BBA
    /\ q = BitOr(RED, YELLOW)
    /\ belOut = F32Hundredths(66)

\* C2: pl(m, q) is 1 minus the belief of the complement of q, the complement
\* being what usize::not computes; on the traffic-light assignment
\* pl(RED) = 0.56, pl(RED|YELLOW) = 0.85 and pl(RED|YELLOW|GREEN) = 1.0.
C2_PlIsOneMinusBelOfComplement ==
    qpc = "done" =>
        /\ Elems(usize_not(q)) = AllBits \ Elems(q)
        /\ plOut = f32_sub_signed(F32_ONE,
                       SumIdx({i \in DOMAIN bba :
                                 Elems(bba[i][1]) \subseteq (AllBits \ Elems(q))}, bba))
        /\ (bba = TRAFFIC_BBA /\ q = RED) => plOut = F32Hundredths(56)
        /\ (bba = TRAFFIC_BBA /\ q = BitOr(RED, YELLOW)) => plOut = F32Hundredths(85)
        /\ (bba = TRAFFIC_BBA /\ q = Frame) => plOut = F32_ONE

C2_Witness ==
    /\ qpc = "done"
    /\ bba = TRAFFIC_BBA
    /\ q = RED
    /\ plOut = F32Hundredths(56)

\* C3: for every assignment with non-negative masses and total mass at most
\* 1 (as the sum of the masses in real numbers, and as their f32 sum) whose
\* EMPTY slots are the (EMPTY, 0) padding, bel(m, q) <= pl(m, q).
C3_BelLePl ==
    (/\ qpc = "done"
     /\ NonNegative(bba)
     /\ AllInUnits(bba) /\ RealSum(bba) <= UNIT_ONE
     /\ F32Le(TotalMass(bba), F32_ONE)
     /\ EmptyHasNoMass(bba)) =>
        F32Le(belOut, plOut)

(***************************************************************************)
(* CartesianProduct (src/src/product.rs, src/dst/src/product.rs).          *)
(* A product is [items, lengths, indices, consumed]; positions are 0-based *)
(* in the source and stored at position + 1 here.                          *)
(***************************************************************************)
\* An array of N copies of x, as built by core::array::from_fn(|_| x),
\* [x; N] and vec![x; N].
RECURSIVE array_from_fn(_, _)
array_from_fn(x, N) == IF N = 0 THEN <<>> ELSE Append(array_from_fn(x, N - 1), x)

CartesianProduct_new(items) ==
    [items    |-> items,
     lengths  |-> [i \in DOMAIN items |-> Len(items[i])],
     indices  |-> array_from_fn(0, Len(items)),
     consumed |-> FALSE]

\* An inc that wraps round to the first tuple instead of setting consumed.
RECURSIVE CartesianProduct_inc_wrapping(_, _)
CartesianProduct_inc_wrapping(p, idx) ==
    IF idx < Len(p.indices)
    THEN LET to_inc == p.indices[idx + 1] + 1
         IN  IF to_inc >= p.lengths[idx + 1]
             THEN CartesianProduct_inc_wrapping([p EXCEPT !.indices[idx + 1] = 0], idx + 1)
             ELSE [st |-> [p EXCEPT !.indices[idx + 1] = to_inc], ok |-> TRUE]
    ELSE [st |-> p, ok |-> FALSE]

\* inc(idx): bump the index at idx, carrying into idx + 1 on overflow.
RECURSIVE CartesianProduct_inc(_, _)
CartesianProduct_inc(p, idx) ==
    IF idx < Len(p.indices)
    THEN LET to_inc == p.indices[idx + 1] + 1
         IN  IF to_inc >= p.lengths[idx + 1]
             THEN CartesianProduct_inc([p EXCEPT !.indices[idx + 1] = 0], idx + 1)
             ELSE [st |-> [p EXCEPT !.indices[idx + 1] = to_inc], ok |-> TRUE]
    ELSE [st |-> [p EXCEPT !.consumed = TRUE], ok |-> FALSE]

\* A next() that increments from position 1, leaving position 0 alone.
CartesianProduct_next_from_second(p) ==
    IF p.consumed
    THEN [st |-> p, kind |-> "None", item |-> <<>>]
    ELSE IF \E b \in DOMAIN p.items : p.indices[b] >= Len(p.items[b])
    THEN [st |-> p, kind |-> "panic", item |-> <<>>]
    ELSE [st   |-> CartesianProduct_inc(p, 1).st,
          kind |-> "Some",
          item |-> [b \in DOMAIN p.items |-> p.items[b][p.indices[b] + 1]]]

\* next(): None once consumed; otherwise the tuple at the indices, then
\* inc(0).  Reading an index outside its slice is the unwrap() panic.
CartesianProduct_next(p) ==
    IF p.consumed
    THEN [st |-> p, kind |-> "None", item |-> <<>>]
    ELSE IF \E b \in DOMAIN p.items : p.indices[b] >= Len(p.items[b])
    THEN [st |-> p, kind |-> "panic", item |-> <<>>]
    ELSE [st   |-> CartesianProduct_inc(p, 0).st,
          kind |-> "Some",
          item |-> [b \in DOMAIN p.items |-> p.items[b][p.indices[b] + 1]]]

(***************************************************************************)
(* comb_dempster_q (src/src/comb.rs).                                      *)
(***************************************************************************)
\* item.into_iter().reduce(|(acc_s, acc_m), (s, m)| (acc_s.intersection(&s), acc_m * m))
RECURSIVE ReduceItem(_, _)
ReduceItem(acc, rest) ==
    IF rest = <<>> THEN acc
    ELSE ReduceItem(<<usize_intersection(acc[1], Head(rest)[1]), f32_mul(acc[2], Head(rest)[2])>>,
                    Tail(rest))

\* (1.0 / (1.0 - k)) * s, each operation rounded to f32: when k has rounded
\* to 1.0 the difference is 0, the quotient inf and the product inf or NaN.
Quotient(s, k) ==
    f32_mul_signed(f32_div_signed(F32_ONE, f32_sub(F32_ONE, k)), s)

\* The `for item in p` loop with its accumulators k and s.
RECURSIVE CombLoop(_, _, _, _)
CombLoop(p, qq, k, s) ==
    LET r == CartesianProduct_next(p)
    IN  IF r.kind = "None" THEN [kind |-> "ok", k |-> k, s |-> s]
        ELSE IF r.kind = "panic" \/ Len(r.item) = 0 THEN [kind |-> "panic"]
        ELSE LET sm   == ReduceItem(Head(r.item), Tail(r.item))
                 set  == sm[1]
                 mass == sm[2]
             IN  IF usize_is_empty(set)
                 THEN CombLoop(r.st, qq, f32_add(k, mass), s)
                 ELSE IF usize_is_subset(set, qq) /\ usize_is_subset(qq, set)
                 THEN CombLoop(r.st, qq, k, f32_add(s, mass))
                 ELSE CombLoop(r.st, qq, k, s)

comb_dempster_q(bba_s, qq) ==
    LET l == CombLoop(CartesianProduct_new(bba_s), qq, F32_ZERO, F32_ZERO)
    IN  IF l.kind = "panic" THEN [kind |-> "panic"]
        ELSE [kind |-> "value", val |-> Quotient(l.s, l.k)]

\* The films of test_comb_dempster_q (src/dst/src/comb.rs).
FILM_X == 1
FILM_Y == 2
FILM_Z == 4

\* The masses of the inputs: the f32 values of 0.01, 0.99 and 1.0, by the
\* number of hundredths each stands for.
MassTable == [h \in {1, 12, 88, 99, 100} |-> F32Hundredths(h)]
CombMasses == {MassTable[h] : h \in {1, 99, 100}}
Hundredths(b) == CHOOSE h \in DOMAIN MassTable : MassTable[h] = b

FILMS_HIGH_CONFLICT ==
    << << <<FILM_X, MassTable[99]>>, <<FILM_Y, MassTable[1]>> >>,
       << <<FILM_Z, MassTable[99]>>, <<FILM_Y, MassTable[1]>> >> >>

\* The two films assignments in turn, n of them: at n = 3 and n = 4 the
\* conflict is within 1e-6 and 1e-8 of 1.
FilmsRepeated(n) == [i \in 1..n |-> FILMS_HIGH_CONFLICT[2 - (i % 2)]]

\* A second assignment against the first of the films: Z 0.88, Y 0.12.
SKEWED_FILM == << <<FILM_Z, MassTable[88]>>, <<FILM_Y, MassTable[12]>> >>

\* The inputs: assignments of 0..CombLen elements over the films and one
\* composite hypothesis, of total mass at most 1.
CombHyps == {FILM_X, FILM_Y, FILM_Z, BitOr(FILM_X, FILM_Y)}
CombElems == CombHyps \X CombMasses
RECURSIVE SeqMass(_)
SeqMass(m) == IF m = <<>> THEN 0 ELSE Hundredths(Head(m)[2]) + SeqMass(Tail(m))
CombInputs ==
    {m \in UNION {[1..n -> CombElems] : n \in 0..CombLen} : SeqMass(m) <= 100}
CombSingles == {m \in CombInputs : Len(m) = 1}
CombQueries == CombHyps \cup {EMPTY}

CInit ==
    /\ \/ \E d \in 0..2 : bbas \in [1..d -> CombInputs]
       \/ bbas \in [1..3 -> CombSingles]
       \/ \E n \in {3, 4} : bbas = FilmsRepeated(n)
       \/ bbas \in {<<FILMS_HIGH_CONFLICT[1], SKEWED_FILM>>,
                     <<SKEWED_FILM, FILMS_HIGH_CONFLICT[1]>>}
    /\ cq = 0
    /\ combOut = [kind |-> "none"]
    /\ cpc = "ready"
    /\ QIdle /\ DIdle /\ HIdle /\ BIdle /\ AIdle /\ EIdle /\ SIdle /\ PIdle /\ MIdle /\ OIdle /\ WIdle

CombDempsterQ(qq) ==
    /\ cpc = "ready"
    /\ cq' = qq
    /\ combOut' = comb_dempster_q(bbas, qq)
    /\ cpc' = "done"
    /\ UNCHANGED bbas
    /\ UNCHANGED <<qvars, dvars, hvars, bvars, avars, evars, svars, pvars, mvars, ovars, wvars>>

CNext ==
    \/ \E qq \in CombQueries : CombDempsterQ(qq)

SpecComb == CInit /\ [][CNext]_vars

(***************************************************************************)
(* Dempster's rule stated over sets of index tuples: in exact arithmetic   *)
(* (hundredths), and in f32 in the order of the enumeration.               *)
(***************************************************************************)
IdxTuples(bs) ==
    {t \in [DOMAIN bs -> 1..CombLen] : \A i \in DOMAIN bs : t[i] <= Len(bs[i])}

TupleElems(t, bs) ==
    {e \in AllBits : \A i \in DOMAIN bs : e \in Elems(bs[i][t[i]][1])}

RECURSIVE TupleMassFrom(_, _, _)
TupleMassFrom(t, bs, i) ==
    IF i > Len(bs) THEN 1
    ELSE Hundredths(bs[i][t[i]][2]) * TupleMassFrom(t, bs, i + 1)
TupleMass(t, bs) == TupleMassFrom(t, bs, 1)

RECURSIVE SumTuples(_, _)
SumTuples(T, bs) ==
    IF T = {} THEN 0
    ELSE LET t == CHOOSE u \in T : TRUE
         IN  TupleMass(t, bs) + SumTuples(T \ {t}, bs)

\* K: the mass of the tuples whose intersection is empty.
ConflictK(bs) == SumTuples({t \in IdxTuples(bs) : TupleElems(t, bs) = {}}, bs)
\* s: the mass of the tuples whose non-empty intersection is exactly qq.
SupportS(bs, qq) ==
    SumTuples({t \in IdxTuples(bs) :
                 TupleElems(t, bs) # {} /\ TupleElems(t, bs) = Elems(qq)}, bs)

UnitOf(bs) == 100 ^ Len(bs)

\* The tuple of rank r in the order of the enumeration: the index into the
\* first assignment varies fastest.
RECURSIVE StrideBefore(_, _)
StrideBefore(bs, i) == IF i = 1 THEN 1 ELSE Len(bs[i - 1]) * StrideBefore(bs, i - 1)
NumTuples(bs) == StrideBefore(bs, Len(bs) + 1)
TupleOfRank(bs, r) ==
    [i \in DOMAIN bs |-> ((r \div StrideBefore(bs, i)) % Len(bs[i])) + 1]

\* The f32 product of the masses of a tuple, from the first assignment on.
RECURSIVE F32TupleMassUpTo(_, _, _)
F32TupleMassUpTo(t, bs, i) ==
    IF i = 1 THEN bs[1][t[1]][2]
    ELSE f32_mul(F32TupleMassUpTo(t, bs, i - 1), bs[i][t[i]][2])

\* The f32 sum, by rank, of the products of the first n tuples whose
\* intersection is the set of elements E.
RECURSIVE F32SumRanks(_, _, _)
F32SumRanks(bs, E, n) ==
    IF n = 0 THEN F32_ZERO
    ELSE LET t == TupleOfRank(bs, n - 1)
             prev == F32SumRanks(bs, E, n - 1)
         IN  IF TupleElems(t, bs) = E
             THEN f32_add(prev, F32TupleMassUpTo(t, bs, Len(bs)))
             ELSE prev

F32ConflictK(bs) == F32SumRanks(bs, {}, NumTuples(bs))
F32SupportS(bs, qq) ==
    IF Elems(qq) = {} THEN F32_ZERO ELSE F32SumRanks(bs, Elems(qq), NumTuples(bs))

\* The check (v - x).abs() < eps of the tests, for a non-negative x, with
\* eps = 0.001f32 as in test_comb_dempster_q.
F32Within(v, x, eps) ==
    /\ v # F32_NAN
    /\ LET d == IF F32IsNeg(v) THEN f32_add(F32Abs(v), x) ELSE F32Abs(f32_sub(v, x))
       IN  d # F32_NAN /\ d < eps
EPS == f32_div(F32OfNat(1), F32OfNat(1000))
F32Near(v, x) == F32Within(v, x, EPS)

\* The call has at least one assignment and none of them is empty.
CombDefined(bs) == Len(bs) >= 1 /\ \A i \in DOMAIN bs : Len(bs[i]) >= 1

C4_RoundedToFullConflict ==
    /\ cpc = "done"
    /\ bbas = FilmsRepeated(4)
    /\ cq = FILM_Y
    /\ ConflictK(bbas) < UnitOf(bbas)
    /\ SupportS(bbas, cq) = UnitOf(bbas) - ConflictK(bbas)
    /\ combOut = [kind |-> "value", val |-> F32_INF]

\* C5: when the focal elements of the assignments are pairwise disjoint
\* (K = 1) the combination returns an explicit FullContradiction error and
\* never a NaN or infinite mass.
C5_FullContradictionReported ==
    (cpc = "done" /\ ConflictK(bbas) = UnitOf(bbas)) =>
        combOut.kind = "FullContradiction"

\* A call on an empty assignment, and a call on no assignment, have
\* panicked.
C4_PanicWitness ==
    /\ cpc = "done"
    /\ combOut = [kind |-> "panic"]
    /\ \/ Len(bbas) = 0
       \/ Len(bbas) = 2 /\ Len(bbas[1]) = 2 /\ Len(bbas[2]) = 0

\* The mass tolerance 1e-5 of the commutativity property.
MASS_TOL == f32_div(F32OfNat(1), F32OfNat(100000))

\* C6: Dempster combination is commutative: for two assignments A and B with
\* K < 1, comb_dempster_q([A, B], q) and comb_dempster_q([B, A], q) give the
\* same mass for every q, up to the mass tolerance 1e-5.
C6_CombCommutes ==
    (cpc = "done" /\ Len(bbas) = 2 /\ CombDefined(bbas)
       /\ ConflictK(bbas) < UnitOf(bbas)) =>
        LET swapped == comb_dempster_q(<<bbas[2], bbas[1]>>, cq)
        IN  /\ combOut.kind = "value"
            /\ swapped.kind = "value"
            /\ swapped.val >= F32_ZERO
            /\ F32Within(combOut.val, swapped.val, MASS_TOL)

\* R: PartialOrd.  The keys are usize values or f32 bit patterns; every
\* comparison with a NaN is false.
partial_gt(a, b) == a # F32_NAN /\ b # F32_NAN /\ a > b
partial_lt(a, b) == a # F32_NAN /\ b # F32_NAN /\ a < b
partial_le(a, b) == a # F32_NAN /\ b # F32_NAN /\ a <= b

(***************************************************************************)
(* heap::PriorityHeap<N, T> (src/dst/src/container.rs).  An element is a   *)
(* pair <<tag, key>>, as the (S, f32) of the approximations, and the key   *)
(* function f is |x| x.1.  buf[i + 1] is the slot at the source's index i. *)
(***************************************************************************)
KeyOf(x) == x[2]

RECURSIVE ilog2(_)
ilog2(n) == IF n <= 1 THEN 0 ELSE 1 + ilog2(n \div 2)

LEAF_IDX(N) == ilog2(N)

parent(x) == IF x % 2 = 0 THEN (x - 2) \div 2 ELSE (x - 1) \div 2

Swap(buf, i, j) == [buf EXCEPT ![i + 1] = buf[j + 1], ![j + 1] = buf[i + 1]]

\* An upkeep that writes the child over the parent in place of the swap.
RECURSIVE heap_upkeep_overwrite(_, _)
heap_upkeep_overwrite(buf, child_idx) ==
    IF child_idx = 0 THEN buf
    ELSE LET parent_idx == parent(child_idx)
         IN  IF partial_gt(KeyOf(buf[child_idx + 1][1]), KeyOf(buf[parent_idx + 1][1]))
             THEN heap_upkeep_overwrite(
                      [buf EXCEPT ![parent_idx + 1] = buf[child_idx + 1]], parent_idx)
             ELSE buf

RECURSIVE heap_upkeep(_, _)
heap_upkeep(buf, child_idx) ==
    IF child_idx = 0 THEN buf
    ELSE LET parent_idx == parent(child_idx)
         IN  IF partial_gt(KeyOf(buf[child_idx + 1][1]), KeyOf(buf[parent_idx + 1][1]))
             THEN heap_upkeep(Swap(buf, parent_idx, child_idx), parent_idx)
             ELSE buf

\* self.buf.iter_mut().enumerate().find(|(_, x)| x.is_none()): the index of
\* the first None, or -1.
FirstNone(buf) ==
    IF \E i \in DOMAIN buf : buf[i] = None
    THEN (CHOOSE i \in DOMAIN buf :
              buf[i] = None /\ \A j \in 1..(i - 1) : buf[j] # None) - 1
    ELSE -1

\* The reduce over buf[LEAF_IDX..]: (a, min) is kept unless f(min) > f(e).
RECURSIVE HeapMinFrom(_, _, _)
HeapMinFrom(buf, a, b) ==
    IF b >= Len(buf) THEN a
    ELSE IF partial_gt(KeyOf(buf[a + 1][1]), KeyOf(buf[b + 1][1]))
    THEN HeapMinFrom(buf, b, b + 1)
    ELSE HeapMinFrom(buf, a, b + 1)

\* insert_by_key(f, v): the buffer after the call and the value returned.
heap_insert_by_key(buf, v) ==
    LET N == Len(buf)
        none == FirstNone(buf)
    IN  IF none >= 0
        THEN [buf |-> heap_upkeep([buf EXCEPT ![none + 1] = Some(v)], none), r |-> None]
        ELSE LET idx == HeapMinFrom(buf, LEAF_IDX(N), LEAF_IDX(N) + 1)
             IN  [buf |-> heap_upkeep([buf EXCEPT ![idx + 1] = Some(v)], idx),
                  r   |-> buf[idx + 1]]

\* PriorityHeap::default()
heap_default(N) == array_from_fn(None, N)

\* test_pq_simple: N = 4 and the keys 0..8 in order.
TEST_PQ_N == 4
TEST_PQ_KEYS == <<0, 1, 2, 3, 4, 5, 6, 7>>
\* A heap of six slots filled with equal keys, then a smaller key.
LEAF_TIE_KEYS == <<1, 1, 1, 1, 1, 1, 0>>

Keys == 0..MaxKey

HInit ==
    /\ \/ hcap \in 1..MaxCap /\ hmode = "free" /\ hfeed = <<>>
       \/ hcap = TEST_PQ_N /\ hmode = "script" /\ hfeed = TEST_PQ_KEYS
       \/ hcap = Len(LEAF_TIE_KEYS) - 1 /\ hmode = "script" /\ hfeed = LEAF_TIE_KEYS
    /\ hbuf = heap_default(hcap)
    /\ hevict = <<>>
    /\ hhist = <<>>
    /\ hprev = heap_default(hcap)
    /\ hret = None
    /\ QIdle /\ CIdle /\ DIdle /\ BIdle /\ AIdle /\ EIdle /\ SIdle /\ PIdle /\ MIdle /\ OIdle /\ WIdle

HeapDo(k) ==
    LET v == <<Len(hhist) + 1, k>>
        res == heap_insert_by_key(hbuf, v)
    IN  /\ hbuf' = res.buf
        /\ hret' = res.r
        /\ hprev' = hbuf
        /\ hhist' = Append(hhist, v)
        /\ hevict' = IF res.r = None THEN hevict ELSE Append(hevict, res.r[1])
        /\ UNCHANGED hcap
        /\ UNCHANGED <<qvars, cvars, dvars, bvars, avars, evars, svars, pvars, mvars, ovars, wvars>>

\* A caller inserts an element with any key.
HeapInsert(k) ==
    /\ hmode = "free"
    /\ Len(hhist) < MaxIns
    /\ HeapDo(k)
    /\ UNCHANGED <<hmode, hfeed>>

\* The test inserts its next key.
HeapInsertScripted ==
    /\ hmode = "script"
    /\ hfeed # <<>>
    /\ HeapDo(Head(hfeed))
    /\ hfeed' = Tail(hfeed)
    /\ UNCHANGED hmode

HNext ==
    \/ \E k \in Keys : HeapInsert(k)
    \/ HeapInsertScripted

SpecHeap == HInit /\ [][HNext]_vars

(***************************************************************************)
(* The K largest keys of a history, by counting.                           *)
(***************************************************************************)
Min2(a, b) == IF a < b THEN a ELSE b
Max2(a, b) == IF a > b THEN a ELSE b

\* The elements held in the Some slots of a buffer.
Contents(buf) == {buf[i][1] : i \in {j \in DOMAIN buf : buf[j] # None}}
CountInBuf(buf, k) == Cardinality({i \in DOMAIN buf : buf[i] # None /\ KeyOf(buf[i][1]) = k})
CountInHist(hist, k) == Cardinality({i \in DOMAIN hist : KeyOf(hist[i]) = k})
CountAbove(hist, k) == Cardinality({i \in DOMAIN hist : KeyOf(hist[i]) > k})
\* How many copies of key k are among the n largest keys of hist.
TopCount(hist, n, k) == Min2(CountInHist(hist, k), Max2(0, n - CountAbove(hist, k)))
HistKeys(hist) == {KeyOf(hist[i]) : i \in DOMAIN hist}
BufKeys(buf) == {KeyOf(x) : x \in Contents(buf)}
IsFull(buf) == \A i \in DOMAIN buf : buf[i] # None
MinKey(buf) == CHOOSE k \in BufKeys(buf) : \A j \in BufKeys(buf) : k <= j

HoldsLargest(buf, hist) ==
    \A k \in HistKeys(hist) \cup BufKeys(buf) :
        CountInBuf(buf, k) = TopCount(hist, Min2(Len(buf), Len(hist)), k)

\* C8: after any sequence of PriorityHeap::insert_by_key calls on a heap of
\* capacity N, the keys in the buffer are, as a multiset, the min(N, calls)
\* largest keys inserted so far.
C8_HeapHoldsLargest == HoldsLargest(hbuf, hhist)

\* C9: PriorityHeap::insert_by_key on a heap that is not full stores the item
\* and returns None; on a full heap it changes the contents only when the
\* incoming key is strictly larger than the minimum key, then removing and
\* returning exactly the minimum element; otherwise the item is rejected, the
\* contents stay unchanged and None is returned.
C9_HeapInsertContract ==
    hhist # <<>> =>
        LET v == hhist[Len(hhist)]
        IN  IF ~IsFull(hprev)
            THEN hret = None /\ Contents(hbuf) = Contents(hprev) \cup {v}
            ELSE IF KeyOf(v) > MinKey(hprev)
            THEN /\ hret # None
                 /\ hret[1] \in Contents(hprev)
                 /\ KeyOf(hret[1]) = MinKey(hprev)
                 /\ Contents(hbuf) = (Contents(hprev) \ {hret[1]}) \cup {v}
            ELSE hret = None /\ hbuf = hprev

(***************************************************************************)
(* bpq::BoundedPriorityQueue<T, N> (src/dst/src/approx.rs).                *)
(***************************************************************************)
\* The reduce over (idx, key): acc is kept when acc.1 <= e.1.
RECURSIVE BpqMinFrom(_, _, _)
BpqMinFrom(buf, a, b) ==
    IF b >= Len(buf) THEN a
    ELSE IF partial_le(KeyOf(buf[a + 1][1]), KeyOf(buf[b + 1][1]))
    THEN BpqMinFrom(buf, a, b + 1)
    ELSE BpqMinFrom(buf, b, b + 1)

bpq_insert_always_replace(buf, initialized, x) ==
    IF initialized < Len(buf)
    THEN [buf |-> [buf EXCEPT ![FirstNone(buf) + 1] = Some(x)],
          initialized |-> initialized + 1]
    ELSE [buf |-> [buf EXCEPT ![BpqMinFrom(buf, 0, 1) + 1] = Some(x)],
          initialized |-> initialized]
\* A full queue that also replaces the minimum on an equal key.
bpq_insert_replace_on_tie(buf, initialized, x) ==
    IF initialized < Len(buf)
    THEN [buf |-> [buf EXCEPT ![FirstNone(buf) + 1] = Some(x)],
          initialized |-> initialized + 1]
    ELSE LET idx == BpqMinFrom(buf, 0, 1)
         IN  IF partial_le(KeyOf(buf[idx + 1][1]), KeyOf(x))
             THEN [buf |-> [buf EXCEPT ![idx + 1] = Some(x)], initialized |-> initialized]
             ELSE [buf |-> buf, initialized |-> initialized]
\* insert_by_key(x, f): the buffer and the counter after the call.
bpq_insert_by_key(buf, initialized, x) ==
    IF initialized < Len(buf)
    THEN [buf |-> [buf EXCEPT ![FirstNone(buf) + 1] = Some(x)],
          initialized |-> initialized + 1]
    ELSE LET idx == BpqMinFrom(buf, 0, 1)
         IN  IF partial_lt(KeyOf(buf[idx + 1][1]), KeyOf(x))
             THEN [buf |-> [buf EXCEPT ![idx + 1] = Some(x)], initialized |-> initialized]
             ELSE [buf |-> buf, initialized |-> initialized]

\* BoundedPriorityQueue::default()
bpq_default(N) == array_from_fn(None, N)

\* bpq::tests: N = 8, default_bpq inserts 0..8, test_insert then TEST_SET.
TEST_BPQ_N == 8
TEST_SET == <<10, 3, 34, 500, 66>>
TEST_BPQ_KEYS == <<0, 1, 2, 3, 4, 5, 6, 7>> \o TEST_SET

BInit ==
    /\ \/ bcap \in 1..MaxCap /\ bmode = "free" /\ bfeed = <<>>
       \/ bcap = TEST_BPQ_N /\ bmode = "script" /\ bfeed = TEST_BPQ_KEYS
    /\ bbuf = bpq_default(bcap)
    /\ binitialized = 0
    /\ bhist = <<>>
    /\ bprev = bpq_default(bcap)
    /\ QIdle /\ CIdle /\ DIdle /\ HIdle /\ AIdle /\ EIdle /\ SIdle /\ PIdle /\ MIdle /\ OIdle /\ WIdle

BpqDo(k) ==
    LET x == <<Len(bhist) + 1, k>>
        res == bpq_insert_by_key(bbuf, binitialized, x)
    IN  /\ bbuf' = res.buf
        /\ binitialized' = res.initialized
        /\ bprev' = bbuf
        /\ bhist' = Append(bhist, x)
        /\ UNCHANGED bcap
        /\ UNCHANGED <<qvars, cvars, dvars, hvars, avars, evars, svars, pvars, mvars, ovars, wvars>>

\* A caller inserts an element with any key.
BpqInsert(k) ==
    /\ bmode = "free"
    /\ Len(bhist) < MaxIns
    /\ BpqDo(k)
    /\ UNCHANGED <<bmode, bfeed>>

\* The test inserts its next key.
BpqInsertScripted ==
    /\ bmode = "script"
    /\ bfeed # <<>>
    /\ BpqDo(Head(bfeed))
    /\ bfeed' = Tail(bfeed)
    /\ UNCHANGED bmode

BNext ==
    \/ \E k \in Keys : BpqInsert(k)
    \/ BpqInsertScripted

SpecBpq == BInit /\ [][BNext]_vars

\* C10: after any sequence of bpq insert_by_key calls on a queue of capacity
\* N, the Some entries of the buffer are, as a multiset of keys, the
\* min(N, calls) largest keys inserted; after 0..7 and 10, 3, 34, 500, 66
\* with N = 8 the buffer holds 4..7, 10, 34, 66, 500 and not 3.
C10_BpqHoldsLargest ==
    /\ HoldsLargest(bbuf, bhist)
    /\ (bmode = "script" /\ bfeed = <<>>) =>
          BufKeys(bbuf) = {4, 5, 6, 7, 10, 34, 66, 500}

C10_Witness ==
    /\ bmode = "script"
    /\ bfeed = <<>>
    /\ Len(bhist) = Len(TEST_BPQ_KEYS)
    /\ 3 \notin BufKeys(bbuf)
    /\ BufKeys(bbuf) = {4, 5, 6, 7, 10, 34, 66, 500}

\* The element handed to the last insert_by_key call.
LastInserted(hist) == hist[Len(hist)]
\* The last call found the queue full and brought a key equal to its minimum.
BpqTieCall ==
    /\ bhist # <<>>
    /\ IsFull(bprev)
    /\ KeyOf(LastInserted(bhist)) = MinKey(bprev)
\* Of the elements inserted with one key, the buffer holds the earliest.
EarliestOfEqualKeys(buf, hist) ==
    \A x \in Contents(buf) : \A i \in DOMAIN hist :
        (KeyOf(hist[i]) = KeyOf(x) /\ hist[i][1] < x[1]) => hist[i] \in Contents(buf)

\* C11 as claimed: inserting into a full bpq an item whose key equals the
\* minimum key leaves the buffer unchanged, and the retained elements are
\* always the earliest-inserted among the candidates of equal key.
C11_TieBreak_AsClaimed ==
    /\ BpqTieCall => bbuf = bprev
    /\ EarliestOfEqualKeys(bbuf, bhist)

\* C11 (amended): inserting into a full bpq an item whose key equals the
\* current minimum key leaves the buffer unchanged (the occupant wins).
C11_TieKeepsOccupant == BpqTieCall => bbuf = bprev

C11_Witness ==
    /\ BpqTieCall
    /\ bbuf = bprev
    /\ LastInserted(bhist) \notin Contents(bbuf)
    /\ \E k \in BufKeys(bbuf) : k > MinKey(bbuf)

(***************************************************************************)
(* hash::FNV1A (src/dst/src/comb.rs, src/dst/src/hash.rs).  A u64 is kept  *)
(* as its 8 little-endian bytes; overflowing_mul is the product modulo     *)
(* 2^64.                                                                   *)
(***************************************************************************)
\* 0xcbf29ce484222325
FNV_OFFSET_BASIS == <<37, 35, 34, 132, 228, 156, 242, 203>>
\* 0x100000001b3
FNV_PRIME == <<179, 1, 0, 0, 0, 1, 0, 0>>

RECURSIVE BitXor(_, _)
BitXor(a, b) ==
    IF a = 0 THEN b
    ELSE IF b = 0 THEN a
    ELSE (((a % 2) + (b % 2)) % 2) + 2 * BitXor(a \div 2, b \div 2)

RECURSIVE ConvSum(_, _, _, _)
ConvSum(a, b, k, i) ==
    IF i > k THEN 0 ELSE a[i] * b[k + 1 - i] + ConvSum(a, b, k, i + 1)

RECURSIVE MulFrom(_, _, _, _)
MulFrom(a, b, k, carry) ==
    IF k > 8 THEN <<>>
    ELSE LET t == carry + ConvSum(a, b, k, 1)
         IN  <<t % 256>> \o MulFrom(a, b, k + 1, t \div 256)

overflowing_mul(a, b) == MulFrom(a, b, 1, 0)

\* Hasher::write: state = (state ^ byte).overflowing_mul(FNV_PRIME) per byte.
RECURSIVE FNV1A_write(_, _)
FNV1A_write(state, bytes) ==
    IF bytes = <<>> THEN state
    ELSE FNV1A_write(
             overflowing_mul([state EXCEPT ![1] = BitXor(state[1], Head(bytes))], FNV_PRIME),
             Tail(bytes))

\* usize::hash writes the 8 native-endian bytes of the key (little-endian
\* here); the keys of the model are below 2^24.
usize_to_ne_bytes(k) ==
    <<k % 256, (k \div 256) % 256, (k \div 65536) % 256, 0, 0, 0, 0, 0>>

RECURSIVE ModFrom(_, _, _, _)
ModFrom(limbs, i, r, N) ==
    IF i = 0 THEN r ELSE ModFrom(limbs, i - 1, (r * 256 + limbs[i]) % N, N)

(***************************************************************************)
(* hashmap::NoAllocHashMap<N, K, V> (src/dst/src/comb.rs).                 *)
(***************************************************************************)
\* (state.finish() as usize) % N
compute_offset(key, N) ==
    ModFrom(FNV1A_write(FNV_OFFSET_BASIS, usize_to_ne_bytes(key)), 8, 0, N)

NoAllocHashMap_default(N) == array_from_fn(None, N)

\* The probe loop of insert from its i-th step; "panic" is the
\* unreachable!("Table was filled") after the loop.
RECURSIVE hm_insert_from(_, _, _, _, _)
hm_insert_from(buf, k, v, offset, i) ==
    IF i >= Len(buf) THEN [kind |-> "panic", buf |-> buf]
    ELSE LET idx == (offset + i) % Len(buf)
         IN  IF buf[idx + 1] # None
             THEN IF buf[idx + 1][1][1] = k
                  THEN [kind |-> "ok",
                        buf  |-> [buf EXCEPT ![idx + 1] = Some(<<k, f32_add(buf[idx + 1][1][2], v)>>)]]
                  ELSE hm_insert_from(buf, k, v, offset, i + 1)
             ELSE [kind |-> "ok", buf |-> [buf EXCEPT ![idx + 1] = Some(<<k, v>>)]]

hm_insert(buf, k, v) == hm_insert_from(buf, k, v, compute_offset(k, Len(buf)), 0)

RECURSIVE hm_get_from(_, _, _, _)
hm_get_from(buf, k, offset, i) ==
    IF i >= Len(buf) THEN None
    ELSE LET idx == (offset + i) % Len(buf)
         IN  IF buf[idx + 1] # None
             THEN IF buf[idx + 1][1][1] = k
                  THEN Some(buf[idx + 1][1][2])
                  ELSE hm_get_from(buf, k, offset, i + 1)
             ELSE None

hm_get(buf, k) == hm_get_from(buf, k, compute_offset(k, Len(buf)), 0)

\* scale(scale): *v = *v * scale for every stored value v.
RECURSIVE hm_scale(_, _)
hm_scale(buf, scale) ==
    IF buf = <<>> THEN <<>>
    ELSE <<IF Head(buf) = None THEN None
           ELSE Some(<<Head(buf)[1][1], f32_mul_signed(Head(buf)[1][2], scale)>>)>>
         \o hm_scale(Tail(buf), scale)

(***************************************************************************)
(* Dempster::comb (src/dst/src/comb.rs).                                   *)
(***************************************************************************)
\* build_arr::<S, Z>()
build_arr(Z) == array_from_fn(<<EMPTY, F32_ZERO>>, Z)

\* The caller's approximation scheme A: Fn(&[(S, f32)]) -> [(S, f32); N],
\* taken here as the first N elements, padded with (EMPTY, 0).
scheme(e, N) ==
    IF Len(e) >= N THEN SubSeq(e, 1, N)
    ELSE e \o array_from_fn(<<EMPTY, F32_ZERO>>, N - Len(e))

\* acc.iter().flat_map(|x1| e.iter().map(move |x2| (x1, x2))): the pairs in
\* order, each inserted as (intersection, product of the masses).
RECURSIVE InsertPairs(_, _, _, _, _)
InsertPairs(map, acc, e, i, j) ==
    IF i > Len(acc) THEN [kind |-> "ok", buf |-> map]
    ELSE IF j > Len(e) THEN InsertPairs(map, acc, e, i + 1, 1)
    ELSE LET r == hm_insert(map, usize_intersection(acc[i][1], e[j][1]),
                            f32_mul(acc[i][2], e[j][2]))
         IN  IF r.kind = "panic" THEN r
             ELSE InsertPairs(r.buf, acc, e, i, j + 1)

\* One call of the fold closure; it ends in todo!(), after the table has
\* been filled and scaled.
fold_step(acc, e, N2) ==
    LET ins == InsertPairs(NoAllocHashMap_default(N2), acc, e, 1, 1)
    IN  IF ins.kind = "panic" THEN [kind |-> "panic_table_filled"]
        ELSE LET got == hm_get(ins.buf, EMPTY)
                 \* 1f32 / (1f32 - map.get(&S::empty()).unwrap_or(&0.0f32))
                 K == IF got = None THEN F32_ZERO ELSE got[1]
                 conflict == f32_div_signed(F32_ONE, f32_sub(F32_ONE, K))
             IN  [kind |-> "panic_todo",
                  K    |-> K,
                  map  |-> hm_scale(ins.buf, conflict)]

\* Dempster::comb without the assertion at its entry.
Dempster_comb_unchecked(bb, N, N2) ==
    IF bb = <<>> THEN [kind |-> "returned", out |-> build_arr(N)]
    ELSE fold_step(build_arr(N), scheme(bb[1], N), N2)

\* Dempster::comb::<N, N2, A>(bba, scheme)
Dempster_comb(bb, N, N2) ==
    IF N2 # N * N THEN [kind |-> "panic_assert"]
    ELSE IF bb = <<>> THEN [kind |-> "returned", out |-> build_arr(N)]
    ELSE fold_step(build_arr(N), scheme(bb[1], N), N2)

\* The inputs: up to two assignments, each one of the films' or a single
\* focal element.
DempsterInputs ==
    UNION {[1..n -> CombSingles \cup {FILMS_HIGH_CONFLICT[1], FILMS_HIGH_CONFLICT[2]}] :
           n \in 0..2}

DInit ==
    /\ dIn \in DempsterInputs
    /\ dOut = [kind |-> "none"]
    /\ dpc = "ready"
    /\ QIdle /\ CIdle /\ HIdle /\ BIdle /\ AIdle /\ EIdle /\ SIdle /\ PIdle /\ MIdle /\ OIdle /\ WIdle

\* comb_approx::<N, S, T, A, C>(bba) on at most one assignment, where
\* reduce never calls its closure: the expect() panic on no assignment,
\* the approximation A of the only one otherwise.
comb_approx(bb, N) ==
    IF bb = <<>> THEN [kind |-> "panic_expect"]
    ELSE [kind |-> "returned", out |-> scheme(bb[1], N)]

DempsterComb(N, N2) ==
    /\ dpc = "ready"
    /\ dOut' = Dempster_comb(dIn, N, N2) @@ [call |-> "Dempster::comb", N |-> N, N2 |-> N2]
    /\ dpc' = "done"
    /\ UNCHANGED dIn
    /\ UNCHANGED <<qvars, cvars, hvars, bvars, avars, evars, svars, pvars, mvars, ovars, wvars>>

CombApprox(N) ==
    /\ dpc = "ready"
    /\ Len(dIn) <= 1
    /\ dOut' = comb_approx(dIn, N) @@ [call |-> "comb_approx", N |-> N]
    /\ dpc' = "done"
    /\ UNCHANGED dIn
    /\ UNCHANGED <<qvars, cvars, hvars, bvars, avars, evars, svars, pvars, mvars, ovars, wvars>>

DNext ==
    \/ \E N \in 1..MaxN : \E N2 \in {N * N, N * N + 1} : DempsterComb(N, N2)
    \/ \E N \in 1..MaxN : CombApprox(N)

SpecDempster == DInit /\ [][DNext]_vars

\* C7: in Dempster::comb a pair whose intersection is EMPTY adds its mass
\* product to K only and is never inserted into the accumulator table, so
\* once all pairs are processed no entry of the table is keyed by the empty
\* set and every entry that is scaled by 1/(1-K) has a non-empty hypothesis.
C7_NoEmptyKeyInAccumulator ==
    (dpc = "done" /\ dOut.kind = "panic_todo") =>
        \A i \in DOMAIN dOut.map :
            dOut.map[i] # None => dOut.map[i][1][1] # EMPTY

(***************************************************************************)
(* The approximations (src/dst/src/approx.rs): KX over the bounded         *)
(* priority queue, approx_rw::KX and approx_rw::Summarize over the         *)
(* priority heap.  An assignment is a sequence of pairs <<S, f32>>.        *)
(***************************************************************************)
\* buf.iter().flatten(): the elements of the Some slots, in slot order.
RECURSIVE Flatten(_)
Flatten(buf) ==
    IF buf = <<>> THEN <<>>
    ELSE IF Head(buf) = None THEN Flatten(Tail(buf))
    ELSE <<Head(buf)[1]>> \o Flatten(Tail(buf))

\* core::array::from_fn(|_| iter.next().unwrap_or((S::EMPTY, 0.0f32)))
PadWithEmpty(elems, N) ==
    elems \o array_from_fn(<<EMPTY, F32_ZERO>>, N - Len(elems))

\* The elements with every mass divided by d.
RECURSIVE DivEach(_, _)
DivEach(elems, d) ==
    IF elems = <<>> THEN <<>>
    ELSE <<<<Head(elems)[1], f32_div_signed(Head(elems)[2], d)>>>> \o DivEach(Tail(elems), d)

\* The queue after bpq.insert_by_key(elem, |z| z.1) for every elem of x.
RECURSIVE BpqFill(_, _, _)
BpqFill(st, x, i) ==
    IF i > Len(x) THEN st
    ELSE BpqFill(bpq_insert_by_key(st.buf, st.initialized, x[i]), x, i + 1)

\* KX::approx::<N>(x)
KX_approx(x, N) ==
    LET buf == Flatten(BpqFill([buf |-> bpq_default(N), initialized |-> 0], x, 1).buf)
        bot == f32_sum(buf)
    IN  PadWithEmpty(DivEach(buf, bot), N)

\* The heap after container.insert_by_key(f, x) for every x of the input.
RECURSIVE HeapFill(_, _, _)
HeapFill(buf, xs, i) ==
    IF i > Len(xs) THEN buf
    ELSE HeapFill(heap_insert_by_key(buf, xs[i]).buf, xs, i + 1)

\* approx_rw::KX::approx::<N>(bba)
approx_rw_KX_approx(xs, N) ==
    LET out == PadWithEmpty(Flatten(HeapFill(heap_default(N), xs, 1)), N)
        denom == f32_sum(out)
    IN  DivEach(out, denom)

\* The loop of Summarize::approx: the heap and the merged evictions.
RECURSIVE SummarizeFill(_, _, _, _)
SummarizeFill(buf, merged, xs, i) ==
    IF i > Len(xs) THEN [buf |-> buf, merged |-> merged]
    ELSE LET res == heap_insert_by_key(buf, xs[i])
         IN  IF res.r # None
             THEN SummarizeFill(res.buf,
                      <<usize_cup(merged[1], res.r[1][1]), f32_add(merged[2], res.r[1][2])>>,
                      xs, i + 1)
             ELSE SummarizeFill(res.buf, merged, xs, i + 1)

\* approx_rw::Summarize::approx::<N>(bba)
Summarize_approx(xs, N) ==
    LET st == SummarizeFill(heap_default(N), <<EMPTY, F32_ZERO>>, xs, 1)
        buf == PadWithEmpty(Flatten(st.buf), N)
        last == buf[N]
        merged == <<usize_cup(st.merged[1], last[1]), f32_add(st.merged[2], last[2])>>
    IN  [buf EXCEPT ![N] = merged]

\* The hypotheses and the f32 masses of the inputs: 0.0, 0.1 (0x3DCCCCCD)
\* and 0.5 (0x3F000000).
ApproxHyps == {FILM_X, FILM_Y}
ApproxMasses == {F32_ZERO, 1036831949, 1056964608}
ApproxElems == ApproxHyps \X ApproxMasses
ApproxInputs == UNION {[1..n -> ApproxElems] : n \in 0..MaxApproxLen}

AInit ==
    /\ aIn \in ApproxInputs
    /\ aN \in 1..MaxApproxN
    /\ aScheme = "none"
    /\ aOut = <<>>
    /\ aRounds = 0
    /\ apc = "input"
    /\ QIdle /\ CIdle /\ DIdle /\ HIdle /\ BIdle /\ EIdle /\ SIdle /\ PIdle /\ MIdle /\ OIdle /\ WIdle

ApproxCall(name, out) ==
    /\ apc = "input"
    /\ aScheme' = name
    /\ aOut' = out
    /\ apc' = "done"
    /\ UNCHANGED <<aIn, aN, aRounds>>
    /\ UNCHANGED <<qvars, cvars, dvars, hvars, bvars, evars, svars, pvars, mvars, ovars, wvars>>

\* A caller applies KX::approx::<N> to the input.
ApproxKX ==
    /\ aScheme = "none"
    /\ ApproxCall("KX", KX_approx(aIn, aN))
\* A caller applies approx_rw::KX::approx::<N> to the input.
ApproxRwKX ==
    /\ aScheme = "none"
    /\ ApproxCall("rwKX", approx_rw_KX_approx(aIn, aN))
\* A caller applies approx_rw::Summarize::approx::<N> to the input.
ApproxSummarize ==
    /\ aScheme = "none"
    /\ ApproxCall("Summarize", Summarize_approx(aIn, aN))

\* A caller applies a Top-N approximation to its own output.
ApproxAgain ==
    /\ apc = "done"
    /\ aRounds < 1
    /\ aScheme \in {"KX", "rwKX"}
    /\ aIn' = aOut
    /\ aOut' = IF aScheme = "KX" THEN KX_approx(aOut, aN)
               ELSE approx_rw_KX_approx(aOut, aN)
    /\ aRounds' = aRounds + 1
    /\ UNCHANGED <<aN, aScheme, apc>>
    /\ UNCHANGED <<qvars, cvars, dvars, hvars, bvars, evars, svars, pvars, mvars, ovars, wvars>>

ANext ==
    \/ ApproxKX
    \/ ApproxRwKX
    \/ ApproxSummarize
    \/ ApproxAgain

SpecApprox == AInit /\ [][ANext]_vars

(***************************************************************************)
(* Claims about the approximations.                                        *)
(***************************************************************************)
\* The first call of a scheme has returned.
ApproxDone(name) == apc = "done" /\ aRounds = 0 /\ aScheme = name
TopNDone == ApproxDone("KX") \/ ApproxDone("rwKX")

\* The number of output slots taken by input elements.
Retained == IF Len(aIn) < aN THEN Len(aIn) ELSE aN

\* g draws distinct input positions, one per slot.
IsInjective(g) == \A i, j \in DOMAIN g : i # j => g[i] # g[j]

\* The input elements at the positions g, in slot order.
Picked(g) == [i \in DOMAIN g |-> aIn[g[i]]]

\* The retained slots of Top-N hold distinct input elements, each with the
\* f32 quotient of its input mass by the f32 sum, in slot order, of the
\* input masses of the retained elements.
TopNQuotients ==
    \E g \in [1..Retained -> 1..Len(aIn)] :
        /\ IsInjective(g)
        /\ \A i \in 1..Retained : aOut[i][1] = aIn[g[i]][1]
        /\ \A i \in 1..Retained :
               aOut[i][2] = f32_div_signed(aIn[g[i]][2], f32_sum(Picked(g)))

\* C12: Top-N divides every retained mass by the sum of the retained masses,
\* and whenever at least one retained mass is non-zero (its quotient is then
\* neither zero nor NaN) the masses of the output sum to exactly 1, be it
\* as real numbers or added in f32 in slot order, as the code adds masses.
C12_TopNRescaleSumsToOne ==
    TopNDone =>
        /\ TopNQuotients
        /\ (\E i \in 1..Retained : aOut[i][2] \notin {F32_ZERO, F32_NAN})
               => \/ f32_sum(aOut) = F32_ONE
                  \/ AllInUnits(aOut) /\ RealSum(aOut) = UNIT_ONE

\* Any of the three approximations has returned from its first call.
AnyApproxDone == TopNDone \/ ApproxDone("Summarize")

\* C13: with fewer than N inputs (k < N, k = 0 included) every approximation
\* returns N slots, and the N - k slots not taken by inputs are (EMPTY, 0).
C13_PaddedWithEmpty ==
    (AnyApproxDone /\ Len(aIn) < aN) =>
        /\ Len(aOut) = aN
        /\ \A i \in (Len(aIn) + 1)..aN : aOut[i] = <<EMPTY, F32_ZERO>>

\* The number of slots of Summarize that hold an input element as it was.
Kept == IF Len(aIn) < aN THEN Len(aIn) ELSE aN - 1

\* The orders in which the input positions can be taken.
Permutations_of(n) == {p \in [1..n -> 1..n] : IsInjective(p)}

\* The input elements at the positions p[from], p[from + 1], ... in order.
PickedFrom(p, from) == [i \in 1..(Len(p) - from + 1) |-> aIn[p[i + from - 1]]]

\* C14: Summarize preserves the total mass: the sum of the N output masses
\* equals the sum of all the input masses, both taken as real numbers (no
\* mass dropped, none counted twice, none changed on its way into the
\* residual).
C14_SumPreserved ==
    (ApproxDone("Summarize") /\ AllInUnits(aIn) /\ AllInUnits(aOut))
        => RealSum(aOut) = RealSum(aIn)

\* The union of the hypotheses of a sequence of elements.
RECURSIVE CupAll(_)
CupAll(elems) ==
    IF elems = <<>> THEN EMPTY ELSE usize_cup(Head(elems)[1], CupAll(Tail(elems)))

\* C15: for more than N inputs Summarize returns the N - 1 largest-mass
\* input elements unchanged in N - 1 slots, and in slot N - 1 the union of
\* the hypotheses and the sum of the masses of all the other inputs.
C15_LargestPlusResidual ==
    (ApproxDone("Summarize") /\ Len(aIn) > aN) =>
        \E p \in Permutations_of(Len(aIn)) :
            /\ \A i \in 1..(aN - 1) : aOut[i] = aIn[p[i]]
            /\ \A i \in 1..(aN - 1) : \A j \in aN..Len(aIn) :
                   partial_le(aIn[p[j]][2], aIn[p[i]][2])
            /\ aOut[aN] = <<CupAll(PickedFrom(p, aN)), f32_sum(PickedFrom(p, aN))>>

\* A Top-N approximation has returned, from its first call or from the call
\* on its own output.
TopNReturned == apc = "done" /\ aScheme \in {"KX", "rwKX"}

\* The masses of the input sum, added in order, to 1.0 within the spec's
\* tolerance for an assignment.
InputSumsToOne == F32Within(f32_sum(aIn), F32_ONE, MASS_TOL)

\* C16: Top-N (KX::approx and approx_rw::KX::approx) on an assignment of at
\* most N elements returns the same elements with the same masses, up to
\* slot order and (EMPTY, 0) padding; the call on its own output (aIn is
\* then the first output) is one such call and changes nothing.
C16_Idempotent ==
    (TopNReturned /\ Len(aIn) <= aN /\ InputSumsToOne) =>
        \E p \in Permutations_of(aN) :
            \A i \in 1..aN : aOut[i] = PadWithEmpty(aIn, aN)[p[i]]

(***************************************************************************)
(* The summation maps: em::SummationEM (src/dst/src/container.rs) and      *)
(* CGHashMap (src/dst/src/hashmap.rs).  buf is [[Option<(K, V)>; N]; N],   *)
(* kept here as its N * N slots in iteration order.                        *)
(***************************************************************************)
\* buf.iter_mut().flatten().find(|z| !z.as_ref().is_some_and(|y| y.0 != k)):
\* the first slot from i on that is None or holds the key k; 0 if none is.
RECURSIVE find_slot(_, _, _)
find_slot(buf, k, i) ==
    IF i > Len(buf) THEN 0
    ELSE IF buf[i] = None \/ buf[i][1][1] = k THEN i
    ELSE find_slot(buf, k, i + 1)

\* An insert that always takes the first free slot, equal key or not.
insert_no_dedup(buf, k, v) ==
    LET free == {i \in 1..Len(buf) : buf[i] = None}
    IN  IF free = {} THEN [buf |-> buf, ok |-> FALSE]
        ELSE LET i == CHOOSE j \in free : \A l \in free : j <= l
             IN  [buf |-> [buf EXCEPT ![i] = Some(<<k, v>>)], ok |-> TRUE]

\* SummationEM::insert(k, v); ok = FALSE is the expect() panic.
SummationEM_insert(buf, k, v) ==
    LET i == find_slot(buf, k, 1)
    IN  IF i = 0 THEN [buf |-> buf, ok |-> FALSE]
        ELSE IF buf[i] # None
        THEN [buf |-> [buf EXCEPT ![i] = Some(<<k, buf[i][1][2] + v>>)], ok |-> TRUE]
        ELSE [buf |-> [buf EXCEPT ![i] = Some(<<k, v>>)], ok |-> TRUE]

\* CGHashMap::insert(k, v); ok = FALSE is the expect() panic.
CGHashMap_insert(buf, k, v) ==
    LET i == find_slot(buf, k, 1)
    IN  IF i = 0 THEN [buf |-> buf, ok |-> FALSE]
        ELSE IF buf[i] # None
        THEN [buf |-> [buf EXCEPT ![i] = Some(<<k, buf[i][1][2] + v>>)], ok |-> TRUE]
        ELSE [buf |-> [buf EXCEPT ![i] = Some(<<k, v>>)], ok |-> TRUE]

\* for_each(|x| x.1 *= s) over the occupied slots of buf.
RECURSIVE scale_each(_, _)
scale_each(buf, s) ==
    IF buf = <<>> THEN <<>>
    ELSE <<IF Head(buf) = None THEN None
           ELSE Some(<<Head(buf)[1][1], Head(buf)[1][2] * s>>)>>
         \o scale_each(Tail(buf), s)

\* SummationEM::scale(s)
SummationEM_scale(buf, s) == scale_each(buf, s)

\* CGHashMap::scale(s)
CGHashMap_scale(buf, s) == scale_each(buf, s)

\* SummationEM::default() / CGHashMap::default()
SummationEM_default(N) == array_from_fn(None, N * N)

\* consume(): self.buf.into_iter().flatten().flatten()
SummationEM_consume(buf) == Flatten(buf)

EInit ==
    /\ emKind \in {"SummationEM", "CGHashMap"}
    /\ emN \in 1..MaxEmN
    /\ emBuf = SummationEM_default(emN)
    /\ emHist = <<>>
    /\ emOut = <<>>
    /\ empc = "ready"
    /\ emScales = 0
    /\ QIdle /\ CIdle /\ DIdle /\ HIdle /\ BIdle /\ AIdle /\ SIdle /\ PIdle /\ MIdle /\ OIdle /\ WIdle

\* One insert(k, v) with the result res of the map's insert.
EmInsertCall(k, v, res) ==
    /\ empc = "ready"
    /\ Len(emHist) < MaxEmIns
    /\ emHist' = Append(emHist, <<k, v>>)
    /\ emBuf' = res.buf
    /\ empc' = IF res.ok THEN "ready" ELSE "panic"
    /\ UNCHANGED <<emKind, emN, emOut, emScales>>
    /\ UNCHANGED <<qvars, cvars, dvars, hvars, bvars, avars, svars, pvars, mvars, ovars, wvars>>

\* A caller inserts into a SummationEM.
EmInsert ==
    /\ emKind = "SummationEM"
    /\ \E k \in 0..MaxEmKey, v \in EmValues :
           EmInsertCall(k, v, SummationEM_insert(emBuf, k, v))

\* A caller inserts into a CGHashMap.
CgInsert ==
    /\ emKind = "CGHashMap"
    /\ \E k \in 0..MaxEmKey, v \in EmValues :
           EmInsertCall(k, v, CGHashMap_insert(emBuf, k, v))

\* One scale(s) that leaves the buffer res.
EmScaleCall(res) ==
    /\ empc = "ready"
    /\ emScales < MaxEmScales
    /\ emBuf' = res
    /\ emScales' = emScales + 1
    /\ UNCHANGED <<emKind, emN, emHist, emOut, empc>>
    /\ UNCHANGED <<qvars, cvars, dvars, hvars, bvars, avars, svars, pvars, mvars, ovars, wvars>>

\* A caller scales a SummationEM.
EmScale ==
    /\ emKind = "SummationEM"
    /\ \E s \in EmFactors : EmScaleCall(SummationEM_scale(emBuf, s))

\* A caller scales a CGHashMap.
CgScale ==
    /\ emKind = "CGHashMap"
    /\ \E s \in EmFactors : EmScaleCall(CGHashMap_scale(emBuf, s))

\* The caller consumes the map.
EmConsume ==
    /\ empc = "ready"
    /\ emOut' = SummationEM_consume(emBuf)
    /\ empc' = "consumed"
    /\ UNCHANGED <<emKind, emN, emBuf, emHist, emScales>>
    /\ UNCHANGED <<qvars, cvars, dvars, hvars, bvars, avars, svars, pvars, mvars, ovars, wvars>>

ENext ==
    \/ EmInsert
    \/ CgInsert
    \/ EmScale
    \/ CgScale
    \/ EmConsume

SpecEM == EInit /\ [][ENext]_vars

\* The keys inserted so far, and the positions at which a key came first.
EmKeys == {emHist[i][1] : i \in 1..Len(emHist)}
FirstAt(k) == CHOOSE i \in 1..Len(emHist) :
                  emHist[i][1] = k /\ \A j \in 1..(i - 1) : emHist[j][1] # k

\* The sum of the values inserted under k among the first n inserts.
RECURSIVE SumUnder(_, _)
SumUnder(k, n) ==
    IF n = 0 THEN 0
    ELSE SumUnder(k, n - 1) + (IF emHist[n][1] = k THEN emHist[n][2] ELSE 0)

\* C17: with at most N * N distinct keys inserted, insert never panics, no
\* two occupied slots hold equal keys, each key's slot holds the sum of the
\* values inserted under it, and consume yields one (key, sum) per distinct
\* key in the order of first insertion.  The sums are those of a map that
\* was only inserted into (no scale call); the keys and their order hold
\* after a scale too.
C17_DedupSumOrder ==
    Cardinality(EmKeys) <= emN * emN =>
        /\ empc # "panic"
        /\ \A i, j \in 1..Len(emBuf) :
               (i # j /\ emBuf[i] # None /\ emBuf[j] # None)
                   => emBuf[i][1][1] # emBuf[j][1][1]
        /\ \A k \in EmKeys : \E i \in 1..Len(emBuf) :
               /\ emBuf[i] # None /\ emBuf[i][1][1] = k
               /\ emScales = 0 => emBuf[i] = Some(<<k, SumUnder(k, Len(emHist))>>)
        /\ empc = "consumed" =>
               /\ Len(emOut) = Cardinality(EmKeys)
               /\ \A i \in 1..Len(emOut) :
                      /\ emScales = 0 =>
                             emOut[i] = <<emOut[i][1], SumUnder(emOut[i][1], Len(emHist))>>
                      /\ emOut[i][1] \in EmKeys
                      /\ \A j \in 1..Len(emOut) :
                             i < j => FirstAt(emOut[i][1]) < FirstAt(emOut[j][1])

\* A map of four slots took 0, 1, 0 as keys and was consumed: two entries,
\* key 0 first with the sum of its two values.
C17_Witness ==
    /\ empc = "consumed"
    /\ emScales = 0
    /\ emN = 2
    /\ Len(emHist) = 3
    /\ emHist[1][1] = 0 /\ emHist[2][1] = 1 /\ emHist[3][1] = 0
    /\ emOut = <<<<0, emHist[1][2] + emHist[3][2]>>, <<1, emHist[2][2]>>>>

(***************************************************************************)
(* Claims about the capacity and the inputs of Dempster::comb.             *)
(***************************************************************************)
\* C18: Dempster::comb fails its assertion exactly when N2 # N * N and
\* never reaches the table-full failure of insert; with N * N slots the
\* N * N inserts of one combination of two of the input assignments,
\* approximated to N elements, never fill a fresh table.
C18_MisSizingCaughtAtEntry ==
    (dpc = "done" /\ dOut.call = "Dempster::comb") =>
        /\ dOut.kind = "panic_assert" <=> dOut.N2 # dOut.N * dOut.N
        /\ dOut.kind # "panic_table_filled"
        /\ \A i, j \in 1..Len(dIn) :
               InsertPairs(NoAllocHashMap_default(dOut.N * dOut.N),
                           scheme(dIn[i], dOut.N), scheme(dIn[j], dOut.N),
                           1, 1).kind = "ok"

\* Dempster::comb ran with N = 2 and N2 = 4 on two assignments, passed the
\* assertion and filled its table without a failure.
C18_Witness ==
    /\ dpc = "done"
    /\ dOut.call = "Dempster::comb"
    /\ dOut.N = 2 /\ dOut.N2 = 4
    /\ Len(dIn) = 2
    /\ dOut.kind = "panic_todo"
    /\ \E i \in DOMAIN dOut.map : dOut.map[i] # None

\* C19: called with no input assignment, comb_approx and Dempster::comb
\* yield an EmptyInput error: they neither panic nor return an assignment.
C19_EmptyInputError ==
    (dpc = "done" /\ dIn = <<>> /\ dOut.kind # "panic_assert") =>
        dOut.kind = "EmptyInput"

(***************************************************************************)
(* The Set implementations (src/dst/src/set.rs): usize, [u8; N] and        *)
(* Interval<N, T>.                                                         *)
(***************************************************************************)
\* <[u8; N] as Set>::EMPTY
bytes_EMPTY(N) == array_from_fn(0, N)

\* <[u8; N] as Set>::is_subset
bytes_is_subset(self, rhs) ==
    \A i \in 1..Len(self) : BitAnd(self[i], rhs[i]) = self[i]

\* <Interval<N, T> as Set>::EMPTY
Interval_EMPTY(N) == array_from_fn(None, N)

\* An is_subset that takes a None dimension to lie inside any dimension.
Interval_is_subset_none_inside(self, rhs) ==
    \A i \in 1..Len(self) :
        \/ self[i] = None
        \/ /\ self[i] # None /\ rhs[i] # None
           /\ self[i][1][1] >= rhs[i][1][1]
           /\ self[i][1][2] <= rhs[i][1][2]

\* <Interval<N, T> as Set>::is_subset
Interval_is_subset(self, rhs) ==
    \A i \in 1..Len(self) :
        \/ self[i] = None /\ rhs[i] = None
        \/ /\ self[i] # None /\ rhs[i] # None
           /\ self[i][1][1] >= rhs[i][1][1]
           /\ self[i][1][2] <= rhs[i][1][2]

\* <Interval<T, N> as SetOperations>::is_subset (src/src/set.rs): the match
\* on (left, right) in every dimension.
old_Interval_is_subset(self, rhs) ==
    \A i \in 1..Len(self) :
        IF self[i] = None /\ rhs[i] = None THEN TRUE
        ELSE IF self[i] # None /\ rhs[i] # None
        THEN self[i][1][1] >= rhs[i][1][1] /\ self[i][1][2] <= rhs[i][1][2]
        ELSE FALSE

\* A cap that keeps the left operand's bounds when the dimensions overlap.
Interval_cap_keep_left(lhs, rhs) ==
    [i \in 1..Len(lhs) |->
        IF lhs[i] # None /\ rhs[i] # None
           /\ lhs[i][1][2] >= rhs[i][1][1] /\ rhs[i][1][2] >= lhs[i][1][1]
        THEN lhs[i]
        ELSE None]

\* <Interval<N, T> as Set>::cap: binop with l.zip(r).and_then(..) in every
\* dimension.
Interval_cap(lhs, rhs) ==
    [i \in 1..Len(lhs) |->
        IF lhs[i] # None /\ rhs[i] # None
           /\ lhs[i][1][2] >= rhs[i][1][1] /\ rhs[i][1][2] >= lhs[i][1][1]
        THEN Some(<<Max2(lhs[i][1][1], rhs[i][1][1]), Min2(lhs[i][1][2], rhs[i][1][2])>>)
        ELSE None]

\* Interval::intersect(lhs, rhs) (src/src/set.rs) on two pairs of bounds.
old_Interval_intersect(lhs, rhs) ==
    LET l == IF lhs[1] <= rhs[1] THEN lhs ELSE rhs
        r == IF lhs[1] <= rhs[1] THEN rhs ELSE lhs
    IN  IF l[2] < r[1] THEN None
        ELSE Some(<<Max2(l[1], r[1]), Min2(l[2], r[2])>>)

\* <Interval<T, N> as SetOperations>::intersection (src/src/set.rs)
old_Interval_intersection(self, rhs) ==
    [i \in 1..Len(self) |->
        IF self[i] # None /\ rhs[i] # None
        THEN old_Interval_intersect(self[i][1], rhs[i][1])
        ELSE None]

\* The values of the three types: every usize, byte arrays over the bytes
\* 0x00, 0x01 and 0xFF, and the intervals Interval::build accepts
\* (lhs <= rhs in every Some dimension).
SetBytes == {0, 1, 255}
BytesValues(N) == [1..N -> SetBytes]
IntervalDims ==
    {None} \cup {Some(<<lo, hi>>) : lo \in 0..MaxCoord, hi \in 0..MaxCoord}
IntervalValues(N) ==
    {x \in [1..N -> IntervalDims] :
        \A i \in 1..N : x[i] # None => x[i][1][1] <= x[i][1][2]}

SInit ==
    /\ \/ sKind = "usize" /\ sLhs \in 0..UsizeMax /\ sRhs \in 0..UsizeMax
       \/ /\ sKind = "bytes"
          /\ \E N \in 0..MaxSetN :
                 sLhs \in BytesValues(N) /\ sRhs \in BytesValues(N)
       \/ /\ sKind = "interval"
          /\ \E N \in 0..MaxSetN :
                 sLhs \in IntervalValues(N) /\ sRhs \in IntervalValues(N)
    /\ sOut = FALSE
    /\ spc = "input"
    /\ QIdle /\ CIdle /\ DIdle /\ HIdle /\ BIdle /\ AIdle /\ EIdle /\ PIdle /\ MIdle /\ OIdle /\ WIdle

\* lhs.is_subset(&rhs) returns res.
IsSubsetCall(res) ==
    /\ spc = "input"
    /\ sOut' = res
    /\ spc' = "done"
    /\ UNCHANGED <<sKind, sLhs, sRhs>>
    /\ UNCHANGED <<qvars, cvars, dvars, hvars, bvars, avars, evars, pvars, mvars, ovars, wvars>>

UsizeIsSubset ==
    /\ sKind = "usize"
    /\ IsSubsetCall(usize_is_subset(sLhs, sRhs))

BytesIsSubset ==
    /\ sKind = "bytes"
    /\ IsSubsetCall(bytes_is_subset(sLhs, sRhs))

IntervalIsSubset ==
    /\ sKind = "interval"
    /\ IsSubsetCall(Interval_is_subset(sLhs, sRhs))

\* A call on two intervals returns res; pc tells which call it was.
IntervalCall(pc, res) ==
    /\ spc = "input"
    /\ sKind = "interval"
    /\ sOut' = res
    /\ spc' = pc
    /\ UNCHANGED <<sKind, sLhs, sRhs>>
    /\ UNCHANGED <<qvars, cvars, dvars, hvars, bvars, avars, evars, pvars, mvars, ovars, wvars>>

OldIntervalIsSubset ==
    /\ sKind = "interval"
    /\ IntervalCall("old_done", old_Interval_is_subset(sLhs, sRhs))

IntervalCap ==
    /\ sKind = "interval"
    /\ IntervalCall("cap_done", Interval_cap(sLhs, sRhs))

OldIntervalIntersection ==
    /\ sKind = "interval"
    /\ IntervalCall("old_cap_done", old_Interval_intersection(sLhs, sRhs))

SNext ==
    \/ UsizeIsSubset
    \/ BytesIsSubset
    \/ IntervalIsSubset
    \/ OldIntervalIsSubset
    \/ IntervalCap
    \/ OldIntervalIntersection

SpecSet == SInit /\ [][SNext]_vars

\* The left operand is the EMPTY of its type.
LhsIsEmpty ==
    \/ sKind = "usize" /\ sLhs = EMPTY
    \/ sKind = "bytes" /\ sLhs = bytes_EMPTY(Len(sRhs))
    \/ sKind = "interval" /\ sLhs = Interval_EMPTY(Len(sRhs))

\* C20: for usize, [u8; N] and Interval<N, T> and every value x of the
\* type, is_subset(EMPTY, x) is true.
C20_EmptyIsSubsetOfAll ==
    (spc = "done" /\ LhsIsEmpty) => sOut = TRUE

\* Dimension i of a lies inside dimension i of b: both None, or both Some
\* with b's bounds enclosing a's.
DimInside(a, b, i) ==
    IF a[i] = None \/ b[i] = None THEN a[i] = b[i]
    ELSE b[i][1][1] <= a[i][1][1] /\ a[i][1][2] <= b[i][1][2]

\* An is_subset of either Interval implementation has returned.
IntervalSubsetDone == sKind = "interval" /\ spc \in {"done", "old_done"}

\* C21: Interval::is_subset(a, b) (both implementations) is true exactly
\* when every dimension of a lies inside that of b; so EMPTY is a subset of
\* EMPTY, EMPTY is not a subset of an interval with a Some dimension, and
\* an interval with a Some dimension is not a subset of EMPTY.
C21_IntervalIsSubset ==
    IntervalSubsetDone =>
        /\ sOut <=> \A i \in 1..Len(sLhs) : DimInside(sLhs, sRhs, i)
        /\ (sLhs = Interval_EMPTY(Len(sLhs)) /\ sRhs = sLhs) => sOut
        /\ (sLhs = Interval_EMPTY(Len(sLhs)) /\ sRhs # sLhs) => ~sOut
        /\ (sRhs = Interval_EMPTY(Len(sRhs)) /\ sLhs # sRhs) => ~sOut

\* Interval::is_subset answered FALSE for EMPTY against a two-dimensional
\* interval with a Some dimension.
C21_Witness ==
    /\ sKind = "interval" /\ spc = "done"
    /\ Len(sLhs) = 2
    /\ sLhs = Interval_EMPTY(2)
    /\ \E i \in 1..2 : sRhs[i] # None
    /\ sOut = FALSE

\* The two closed intervals of dimension i overlap.
DimsOverlap(a, b, i) ==
    /\ a[i] # None /\ b[i] # None
    /\ \E x \in 0..(MaxCoord + 1) :
           /\ a[i][1][1] <= x /\ x <= a[i][1][2]
           /\ b[i][1][1] <= x /\ x <= b[i][1][2]

\* The greatest of the two lower and the least of the two upper bounds.
DimMeet(a, b, i) ==
    LET lo == CHOOSE x \in {a[i][1][1], b[i][1][1]} :
                  a[i][1][1] <= x /\ b[i][1][1] <= x
        hi == CHOOSE x \in {a[i][1][2], b[i][1][2]} :
                  x <= a[i][1][2] /\ x <= b[i][1][2]
    IN  Some(<<lo, hi>>)

\* An intersection of either Interval implementation has returned.
IntervalCapDone == sKind = "interval" /\ spc \in {"cap_done", "old_cap_done"}

\* C22: Interval::cap and the older intersection return, per dimension,
\* (max of the lower bounds, min of the upper bounds) when both operands
\* are Some and overlap, and None otherwise; the result is the same with
\* the operands exchanged, cap(EMPTY, b) is EMPTY, and two disjoint
\* one-dimensional intervals intersect to EMPTY.
C22_IntervalCap ==
    IntervalCapDone =>
        /\ Len(sOut) = Len(sLhs)
        /\ \A i \in 1..Len(sLhs) :
               sOut[i] = IF DimsOverlap(sLhs, sRhs, i) THEN DimMeet(sLhs, sRhs, i)
                         ELSE None
        /\ spc = "cap_done" => sOut = Interval_cap(sRhs, sLhs)
        /\ spc = "old_cap_done" => sOut = old_Interval_intersection(sRhs, sLhs)
        /\ sLhs = Interval_EMPTY(Len(sLhs)) => sOut = Interval_EMPTY(Len(sLhs))
        /\ (Len(sLhs) = 1 /\ ~DimsOverlap(sLhs, sRhs, 1)) => sOut = Interval_EMPTY(1)

\* Interval::cap met two overlapping, different intervals in one dimension
\* and found the other dimension disjoint.
C22_Witness ==
    /\ sKind = "interval" /\ spc = "cap_done"
    /\ Len(sLhs) = 2
    /\ sLhs[1] # None /\ sRhs[1] # None /\ sLhs[1] # sRhs[1]
    /\ sOut[1] # None /\ sOut[1] # sLhs[1]
    /\ sLhs[2] # None /\ sRhs[2] # None /\ sOut[2] = None

(***************************************************************************)
(* The CartesianProduct iterator (src/dst/src/product.rs) driven by        *)
(* repeated next().                                                        *)
(***************************************************************************)
\* The slice at position b (1-based) with len elements, all different from
\* the elements of the other slices.
RECURSIVE SliceOf(_, _)
SliceOf(b, len) ==
    IF len = 0 THEN <<>> ELSE Append(SliceOf(b, len - 1), 10 * b + len)

\* The slices with the given lengths.
RECURSIVE SlicesOf(_)
SlicesOf(lens) ==
    IF lens = <<>> THEN <<>>
    ELSE Append(SlicesOf(SubSeq(lens, 1, Len(lens) - 1)),
                SliceOf(Len(lens), lens[Len(lens)]))

\* tests: items = [&[1], &[3, 4, 5, 6], &[1, 2, 3]]
TEST_PRODUCT_ITEMS == << <<1>>, <<3, 4, 5, 6>>, <<1, 2, 3>> >>

PInit ==
    /\ \/ \E D \in 0..MaxD : \E lens \in [1..D -> 0..MaxSliceLen] :
              prod = CartesianProduct_new(SlicesOf(lens))
       \/ prod = CartesianProduct_new(TEST_PRODUCT_ITEMS)
    /\ pHist = <<>>
    /\ pLast = "new"
    /\ pNone = 0
    /\ QIdle /\ CIdle /\ DIdle /\ HIdle /\ BIdle /\ AIdle /\ EIdle /\ SIdle /\ MIdle /\ OIdle /\ WIdle

\* One call of next(); a panic ends the run.
ProductNext ==
    /\ pLast # "panic"
    /\ pNone < MaxNone
    /\ LET r == CartesianProduct_next(prod)
       IN  /\ prod' = r.st
           /\ pLast' = r.kind
           /\ pHist' = IF r.kind = "Some"
                       THEN Append(pHist, [idx |-> prod.indices, item |-> r.item])
                       ELSE pHist
           /\ pNone' = IF r.kind = "None" THEN pNone + 1 ELSE pNone
    /\ UNCHANGED <<qvars, cvars, dvars, hvars, bvars, avars, evars, svars, mvars, ovars, wvars>>

PNext == ProductNext

SpecProduct == PInit /\ [][PNext]_vars

\* The product of the slice lengths.
RECURSIVE ProdLenFrom(_)
ProdLenFrom(items) ==
    IF items = <<>> THEN 1
    ELSE Len(Head(items)) * ProdLenFrom(Tail(items))
ProdLen == ProdLenFrom(prod.items)

AllSlicesNonEmpty == \A b \in DOMAIN prod.items : Len(prod.items[b]) > 0

\* C23: over non-empty slices next() returns Some for exactly the first
\* (product of the lengths) calls, each tuple picks one element per slice
\* at indices no other call used, and every later call returns None with
\* consumed staying true.
C23_EveryTupleOnceThenNone ==
    AllSlicesNonEmpty =>
        /\ pLast # "panic"
        /\ Len(pHist) <= ProdLen
        /\ prod.consumed <=> Len(pHist) = ProdLen
        /\ pLast = "None" => prod.consumed
        /\ pNone > 0 => (prod.consumed /\ pLast = "None")
        /\ \A n \in 1..Len(pHist) :
               /\ \A b \in DOMAIN prod.items :
                      /\ pHist[n].idx[b] < Len(prod.items[b])
                      /\ pHist[n].item[b] = prod.items[b][pHist[n].idx[b] + 1]
               /\ \A k \in 1..Len(pHist) : k # n => pHist[k].idx # pHist[n].idx

\* The product of the tests (lengths 1, 4, 3) returned its twelve tuples
\* and then None twice.
C23_Witness ==
    /\ prod.items = TEST_PRODUCT_ITEMS
    /\ Len(pHist) = 12
    /\ pNone = 2
    /\ pLast = "None"

\* The odometer successor of the index tuple idx for the given lengths:
\* position 1 (index 0 of the source) varies fastest.
RECURSIVE OdometerNext(_, _, _)
OdometerNext(idx, lens, b) ==
    IF b > Len(idx) THEN idx
    ELSE IF idx[b] + 1 < lens[b] THEN [idx EXCEPT ![b] = idx[b] + 1]
    ELSE OdometerNext([idx EXCEPT ![b] = 0], lens, b + 1)

\* C24: the index tuples come in odometer order with position 0 fastest:
\* the first is all zeros, each next one is the odometer successor of the
\* one before, and for lengths (1, 4, 3) the first five are (0,0,0),
\* (0,1,0), (0,2,0), (0,3,0), (0,0,1).
C24_OdometerOrder ==
    AllSlicesNonEmpty =>
        /\ Len(pHist) >= 1 => \A b \in DOMAIN prod.items : pHist[1].idx[b] = 0
        /\ \A n \in 2..Len(pHist) :
               pHist[n].idx = OdometerNext(pHist[n - 1].idx, prod.lengths, 1)
        /\ (prod.items = TEST_PRODUCT_ITEMS /\ Len(pHist) >= 5) =>
               /\ pHist[1].idx = <<0, 0, 0>>
               /\ pHist[2].idx = <<0, 1, 0>>
               /\ pHist[3].idx = <<0, 2, 0>>
               /\ pHist[4].idx = <<0, 3, 0>>
               /\ pHist[5].idx = <<0, 0, 1>>

\* The product of the tests returned its fifth tuple, [1, 3, 2], after the
\* carry out of the second position.
C24_Witness ==
    /\ prod.items = TEST_PRODUCT_ITEMS
    /\ Len(pHist) = 5
    /\ pHist[5].item = <<1, 3, 2>>

\* C30: over slices of which at least one is empty the first next()
\* returns None, with no panic; for D = 0 the iterator yields exactly one
\* empty tuple and then None.
C30_EmptySliceYieldsNothing ==
    /\ (~AllSlicesNonEmpty /\ pLast # "new") => (pLast = "None" /\ pHist = <<>>)
    /\ (Len(prod.items) = 0 /\ pLast # "new") =>
           /\ Len(pHist) = 1 /\ pHist[1].item = <<>>
           /\ pLast = "None" <=> pNone > 0

(***************************************************************************)
(* NoAllocHashMap::insert and NoAllocHashMap::get as called on a map of    *)
(* any N (src/dst/src/comb.rs).  Both start with compute_offset, whose     *)
(* "% N" panics for N = 0 (remainder with a divisor of zero).              *)
(***************************************************************************)
\* The values inserted (1.0 and 0.01, whose f32 sums depend on the order)
\* and the factor of scale (2.0).
HmValues == {F32_ONE, F32Hundredths(1)}
HmFactors == {F32OfNat(2)}

\* compute_offset tabulated over the capacities and keys of the model.
OffsetTable == [N \in 1..MaxHmN |-> [k \in 0..MaxHmKey |-> compute_offset(k, N)]]

NoAllocHashMap_insert(buf, k, v) ==
    IF Len(buf) = 0 THEN [kind |-> "panic", buf |-> buf]
    ELSE hm_insert_from(buf, k, v, OffsetTable[Len(buf)][k], 0)

\* A get that looks at the slot of the offset only.
NoAllocHashMap_get_no_probe(buf, k) ==
    IF Len(buf) = 0 THEN [kind |-> "panic"]
    ELSE LET s == buf[OffsetTable[Len(buf)][k] + 1]
         IN  [kind |-> "ok",
              val  |-> IF s # None /\ s[1][1] = k THEN Some(s[1][2]) ELSE None]

NoAllocHashMap_get(buf, k) ==
    IF Len(buf) = 0 THEN [kind |-> "panic"]
    ELSE [kind |-> "ok", val |-> hm_get_from(buf, k, OffsetTable[Len(buf)][k], 0)]

\* NoAllocHashMap::scale(scale): *v = *v * scale for every stored pair.
NoAllocHashMap_scale(buf, s) == hm_scale(buf, s)

MInit ==
    /\ \E N \in 0..MaxHmN : mbuf = NoAllocHashMap_default(N)
    /\ mhist = <<>>
    /\ mlast = [op |-> "new"]
    /\ mscales = 0
    /\ QIdle /\ CIdle /\ DIdle /\ HIdle /\ BIdle /\ AIdle /\ EIdle /\ SIdle /\ PIdle /\ OIdle /\ WIdle

\* hm.insert(k, v); a panic ends the run.
HmInsert ==
    /\ mlast.op # "panic"
    /\ Len(mhist) < MaxHmIns
    /\ \E k \in 0..MaxHmKey, v \in HmValues :
          LET r == NoAllocHashMap_insert(mbuf, k, v)
          IN  /\ mbuf' = r.buf
              /\ mhist' = Append(mhist, <<k, v>>)
              /\ mlast' = IF r.kind = "panic" THEN [op |-> "panic", of |-> "insert"]
                          ELSE [op |-> "insert"]
    /\ UNCHANGED mscales
    /\ UNCHANGED <<qvars, cvars, dvars, hvars, bvars, avars, evars, svars, pvars, ovars, wvars>>

\* hm.get(&k)
HmGet ==
    /\ mlast.op # "panic"
    /\ \E k \in 0..MaxHmKey :
          LET r == NoAllocHashMap_get(mbuf, k)
          IN  mlast' = IF r.kind = "panic" THEN [op |-> "panic", of |-> "get"]
                       ELSE [op |-> "get", k |-> k, val |-> r.val]
    /\ UNCHANGED <<mbuf, mhist, mscales>>
    /\ UNCHANGED <<qvars, cvars, dvars, hvars, bvars, avars, evars, svars, pvars, ovars, wvars>>

\* hm.scale(s)
HmScale ==
    /\ mlast.op # "panic"
    /\ mscales < MaxHmScales
    /\ \E s \in HmFactors : mbuf' = NoAllocHashMap_scale(mbuf, s)
    /\ mscales' = mscales + 1
    /\ mlast' = [op |-> "scale"]
    /\ UNCHANGED mhist
    /\ UNCHANGED <<qvars, cvars, dvars, hvars, bvars, avars, evars, svars, pvars, ovars, wvars>>

MNext == HmInsert \/ HmGet \/ HmScale

SpecHashMap == MInit /\ [][MNext]_vars

\* The keys inserted so far, and the f32 sum of the values inserted under k
\* in the order of insertion.
HmKeys == {mhist[i][1] : i \in 1..Len(mhist)}
RECURSIVE HmSumFrom(_, _)
HmSumFrom(h, k) ==
    IF h = <<>> THEN F32_ZERO
    ELSE LET before == HmSumFrom(SubSeq(h, 1, Len(h) - 1), k)
         IN  IF h[Len(h)][1] = k THEN f32_add(before, h[Len(h)][2]) ELSE before
HmSlotsOf(k) == {i \in 1..Len(mbuf) : mbuf[i] # None /\ mbuf[i][1][1] = k}

\* What the sentence says of the state: no insert or get panicked, a get
\* returned the sum or None, and every key sits in at most one slot.  The
\* sum is that of a map that was only inserted into (no scale call).
HmContract ==
    /\ mlast.op # "panic"
    /\ mlast.op = "get" =>
           IF mlast.k \in HmKeys
           THEN mlast.val # None /\ (mscales = 0 => mlast.val = Some(HmSumFrom(mhist, mlast.k)))
           ELSE mlast.val = None
    /\ \A k \in 0..MaxHmKey :
           Cardinality(HmSlotsOf(k)) = (IF k \in HmKeys THEN 1 ELSE 0)

\* C25 as stated: after inserts that use at most N distinct keys, get(k) is
\* the sum of the values inserted under k, get of a key never inserted is
\* None, and no key occupies more than one slot.
C25_InsertGetContract_AsClaimed ==
    Cardinality(HmKeys) <= Len(mbuf) => HmContract

\* C25: for N >= 1, after inserts that use at most N distinct keys, get(k)
\* is the sum of the values inserted under k, get of a key never inserted
\* is None, and no key occupies more than one slot.
C25_InsertGetContract ==
    (Len(mbuf) >= 1 /\ Cardinality(HmKeys) <= Len(mbuf)) => HmContract

\* A get of a key that was inserted more than once and that the probe
\* placed away from its offset, in a map that holds another key too.
C25_Witness ==
    /\ mlast.op = "get"
    /\ mscales = 0
    /\ Cardinality(HmKeys) <= Len(mbuf)
    /\ Cardinality(HmKeys) >= 2
    /\ Cardinality({i \in 1..Len(mhist) : mhist[i][1] = mlast.k}) >= 2
    /\ \E i \in HmSlotsOf(mlast.k) : i # OffsetTable[Len(mbuf)][mlast.k] + 1

(***************************************************************************)
(* pq::BoundedPriorityQueue<T, N> (src/src/approx.rs): an array kept       *)
(* sorted ascending by key once N elements were inserted.  T is            *)
(* (usize, key); new() zeroes buf.                                         *)
(***************************************************************************)
pq_new(N) == [buf |-> array_from_fn(<<0, 0>>, N), num_initialized |-> 0]

\* The index closure with i.checked_sub(1) replaced by i.
RECURSIVE pq_index_no_sub(_, _, _)
pq_index_no_sub(buf, x, i) ==
    IF i >= Len(buf) THEN Some(Len(buf) - 1)
    ELSE IF KeyOf(x) > KeyOf(buf[i + 1]) THEN pq_index_no_sub(buf, x, i + 1)
    ELSE Some(i)

\* The index closure of insert_by_key from its i-th step: the slot x goes
\* to, None if x is not larger than buf[0].
RECURSIVE pq_index(_, _, _)
pq_index(buf, x, i) ==
    IF i >= Len(buf) THEN Some(Len(buf) - 1)
    ELSE IF KeyOf(x) > KeyOf(buf[i + 1]) THEN pq_index(buf, x, i + 1)
    ELSE IF i = 0 THEN None ELSE Some(i - 1)

\* for i in 0..idx { buf[i] = buf[i + 1] }; buf[idx] = x
pq_shift_in(buf, idx, x) ==
    SubSeq(buf, 2, idx + 1) \o <<x>> \o SubSeq(buf, idx + 2, Len(buf))

\* What sort_unstable_by_key may leave: any arrangement of the same
\* elements that is ascending by key (the order of equal keys is open).
IsSortedByKey(buf) == \A i \in 1..(Len(buf) - 1) : KeyOf(buf[i]) <= KeyOf(buf[i + 1])
SortOutcomes(buf) ==
    {[i \in 1..Len(buf) |-> buf[g[i]]] :
        g \in {h \in [1..Len(buf) -> 1..Len(buf)] :
                  IsInjective(h) /\ IsSortedByKey([i \in 1..Len(buf) |-> buf[h[i]]])}}

\* insert_by_key(x, f) on a queue that is not about to be sorted: the
\* queue after the call.  For N = 0 the else branch computes N - 1 and
\* panics (overflow, or the unwrap of buf.get(1) where overflow wraps).
pq_insert_by_key(pq, x) ==
    LET N == Len(pq.buf)
    IN  IF pq.num_initialized < N
        THEN [kind |-> "ok",
              pq   |-> [buf |-> [pq.buf EXCEPT ![pq.num_initialized + 1] = x],
                        num_initialized |-> pq.num_initialized + 1]]
        ELSE IF N = 0 THEN [kind |-> "panic", pq |-> pq]
        ELSE LET idx == pq_index(pq.buf, x, 0)
             IN  [kind |-> "ok",
                  pq   |-> IF idx = None THEN pq
                           ELSE [pq EXCEPT !.buf = pq_shift_in(pq.buf, idx[1], x)]]

\* IntoIterator for &BoundedPriorityQueue
pq_into_iter(pq) ==
    IF pq.num_initialized < Len(pq.buf) THEN SubSeq(pq.buf, 1, pq.num_initialized)
    ELSE pq.buf

OInit ==
    /\ \E N \in 0..MaxPqN : obuf = pq_new(N).buf
    /\ onum = 0
    /\ ohist = <<>>
    /\ olast = "new"
    /\ QIdle /\ CIdle /\ DIdle /\ HIdle /\ BIdle /\ AIdle /\ EIdle /\ SIdle /\ PIdle /\ MIdle /\ WIdle

\* bpq.insert_by_key(x, f) with any key; the N-th insert sorts the buffer.
\* A panic ends the run.
PqInsert ==
    /\ olast # "panic"
    /\ Len(ohist) < MaxPqIns
    /\ \E k \in Keys :
          LET x == <<Len(ohist) + 1, k>>
              r == pq_insert_by_key([buf |-> obuf, num_initialized |-> onum], x)
          IN  /\ olast' = IF r.kind = "panic" THEN "panic" ELSE "insert"
              /\ ohist' = IF r.kind = "panic" THEN ohist ELSE Append(ohist, x)
              /\ onum' = r.pq.num_initialized
              /\ IF r.kind = "ok" /\ onum < Len(obuf) /\ onum + 1 = Len(obuf)
                 THEN obuf' \in SortOutcomes(r.pq.buf)
                 ELSE obuf' = r.pq.buf
    /\ UNCHANGED <<qvars, cvars, dvars, hvars, bvars, avars, evars, svars, pvars, mvars, wvars>>

ONext == PqInsert

SpecPq == OInit /\ [][ONext]_vars

PqCount(buf, k) == Cardinality({i \in DOMAIN buf : KeyOf(buf[i]) = k})

\* C26: once at least N items have been inserted the buffer is sorted
\* ascending by key and holds exactly the N largest keys inserted so far;
\* while fewer than N items have been inserted, iteration yields the
\* inserted items in insertion order.
C26_SortedAndLargest ==
    /\ Len(ohist) >= Len(obuf) =>
           /\ IsSortedByKey(obuf)
           /\ \A k \in Keys : PqCount(obuf, k) = TopCount(ohist, Len(obuf), k)
    /\ Len(ohist) < Len(obuf) =>
           pq_into_iter([buf |-> obuf, num_initialized |-> onum]) = ohist

\* A full queue of at least two slots that took a key into its middle,
\* rejected one, and holds equal keys.
C26_Witness ==
    /\ Len(obuf) >= 2
    /\ Len(ohist) > Len(obuf) + 1
    /\ \E i \in 1..Len(obuf) : obuf[i][1] > Len(obuf) /\ i < Len(obuf)
    /\ \E i \in (Len(obuf) + 1)..Len(ohist) : \A j \in 1..Len(obuf) : obuf[j] # ohist[i]
    /\ \E i \in 1..(Len(obuf) - 1) : KeyOf(obuf[i]) = KeyOf(obuf[i + 1])

(***************************************************************************)
(* weighted_average_convex (src/agg-exp/src/lib.rs) at P = W = i32: "/" is *)
(* the integer division, which panics on a zero divisor; the values of the *)
(* model are non-negative and far below 2^31.                              *)
(***************************************************************************)
\* iter.reduce(|a, b| a + b) over a non-empty sequence
RECURSIVE reduce_add(_)
reduce_add(xs) ==
    IF Len(xs) = 1 THEN xs[1]
    ELSE reduce_add(SubSeq(xs, 1, Len(xs) - 1)) + xs[Len(xs)]

weighted_average_convex(predictions, weights) ==
    IF Len(predictions) = 0 THEN [kind |-> "panic"]
    ELSE LET top == reduce_add([i \in 1..Len(weights) |-> weights[i] * predictions[i]])
             bot == reduce_add(predictions)
         IN  IF bot = 0 THEN [kind |-> "panic"]
             ELSE [kind |-> "ok", val |-> top \div bot]

WInit ==
    /\ \E N \in 0..MaxWaN :
          /\ wPred \in [1..N -> 0..MaxWaVal]
          /\ wWeights \in [1..N -> 0..MaxWaVal]
    /\ wOut = [kind |-> "none"]
    /\ wpc = "input"
    /\ QIdle /\ CIdle /\ DIdle /\ HIdle /\ BIdle /\ AIdle /\ EIdle /\ SIdle /\ PIdle /\ MIdle /\ OIdle

WeightedAverageCall ==
    /\ wpc = "input"
    /\ wOut' = weighted_average_convex(wPred, wWeights)
    /\ wpc' = "done"
    /\ UNCHANGED <<wPred, wWeights>>
    /\ UNCHANGED <<qvars, cvars, dvars, hvars, bvars, avars, evars, svars, pvars, mvars, ovars>>

WNext == WeightedAverageCall

SpecWavg == WInit /\ [][WNext]_vars

\* C27: weighted_average_convex returns the sum of weights[i] *
\* predictions[i] divided by the sum of the weights (whenever that sum is
\* not zero).
C27_WeightedAverage ==
    (wpc = "done" /\ Len(wWeights) >= 1 /\ reduce_add(wWeights) # 0) =>
        /\ wOut.kind = "ok"
        /\ wOut.val = reduce_add([i \in 1..Len(wWeights) |-> wWeights[i] * wPred[i]])
                         \div reduce_add(wWeights)

\* C28: after every insert_by_key every occupied slot i > 0 has a key not
\* above its parent's, and the minimum key of a full heap lies in
\* buf[LEAF_IDX..].
C28_HeapOrder ==
    /\ \A i \in 1..(Len(hbuf) - 1) :
           hbuf[i + 1] # None =>
               KeyOf(hbuf[parent(i) + 1][1]) >= KeyOf(hbuf[i + 1][1])
    /\ (Len(hbuf) >= 1 /\ IsFull(hbuf)) =>
           \E i \in LEAF_IDX(Len(hbuf))..(Len(hbuf) - 1) :
               KeyOf(hbuf[i + 1][1]) = MinKey(hbuf)

\* How often x occurs in a sequence, and in the Some slots of a buffer.
CountInSeq(seq, x) == Cardinality({i \in DOMAIN seq : seq[i] = x})
CountSome(buf, x) == Cardinality({i \in DOMAIN buf : buf[i] = Some(x)})

\* C29: the elements in the buffer together with the elements returned as
\* Some(evicted) are, as multisets, the elements inserted.
C29_NothingLostOrDuplicated ==
    \A x \in Contents(hbuf) \cup {hevict[i] : i \in DOMAIN hevict}
              \cup {hhist[i] : i \in DOMAIN hhist} :
        CountSome(hbuf, x) + CountInSeq(hevict, x) = CountInSeq(hhist, x)

\* A full heap that has returned at least two elements, the last insert
\* having moved its element up from the slot it replaced.
C29_Witness ==
    /\ IsFull(hbuf)
    /\ Len(hbuf) >= 3
    /\ Len(hevict) >= 2
    /\ hret # None
    /\ \E i, j \in DOMAIN hbuf :
           /\ i < j
           /\ hprev[j] = hret
           /\ hbuf[i] = Some(hhist[Len(hhist)])

====
